---- MODULE Spec2Model ----
(***************************************************************************)
(* Dupe-check subsystem of smoked-salmon: the redundancy filter of the     *)
(* search strings (salmon/uploader/dupe_checker.py) and the interactive    *)
(* decision protocol check_existing_group with its two prompt loops, the   *)
(* confirmation prompt and the recheck entry point                         *)
(* (salmon/uploader/__init__.py).  SpecFilter runs the filter alone, Spec  *)
(* the protocol with each search batch as one step, SpecGather the search  *)
(* batch and the log page fetches request by request, SpecLog the log      *)
(* matcher under every tolerance, SpecCalls single calls of the query      *)
(* generator, the log page parser and the release listings                 *)
(* (salmon/trackers/base.py), SpecUpload the dupe-check steps of upload(), *)
(* SpecConvert the slots of the downconverter                              *)
(* (salmon/converter/downconverting.py).                                   *)
(***************************************************************************)
EXTENDS Integers, Sequences, FiniteSets, TLC

\* ------------------------------------------------------------------ bounds
\* longest candidate search string, in characters
MaxStrLen == 3
\* most candidate strings handed to the filter in one call
MaxCands == 2
\* largest number typed at a prompt
MaxNum == 7
\* most hits the log matcher returns
MaxLog == 6
\* most release records in one browse response
MaxPerQuery == 2
\* most search batches per call
MaxBatches == 2
\* pages of the log fetched by get_uploads_from_log
MaxPages == 2
\* most converter slots (cfg.upload.simultaneous_threads)
MaxSlots == 2
\* most files of one folder that need conversion
MaxFiles == 2
\* most calls of _convert_files in one session
MaxConvCalls == 2

\* ------------------------------------------------------ program constants
\* recent_uploads[:5]: the hits printed by the recent-uploads prompt
MaxShown == 5

\* ------------------------------------------------------ strings as the code
\* sees them: sequences of characters; " " stands for whitespace.
Alphabet == {"a", "b", " "}

RECURSIVE StringsOfLen(_)
StringsOfLen(n) ==
    IF n = 0 THEN {<<>>}
    ELSE {Append(s, c) : s \in StringsOfLen(n - 1), c \in Alphabet}

\* make_searchstrs(normalize=True) hands over lower-case words joined by
\* single blanks: no leading, trailing or doubled whitespace.
Normalized(s) ==
    /\ Len(s) > 0 => (s[1] # " " /\ s[Len(s)] # " ")
    /\ \A i \in 1..(Len(s) - 1) : ~(s[i] = " " /\ s[i + 1] = " ")

Strings == {s \in UNION {StringsOfLen(n) : n \in 0..MaxStrLen} : Normalized(s)}

RECURSIVE ListsOfLen(_, _)
ListsOfLen(S, n) ==
    IF n = 0 THEN {<<>>}
    ELSE {Append(l, x) : l \in ListsOfLen(S, n - 1), x \in S}

ListsUpTo(S, n) == UNION {[1..k -> S] : k \in 0..n}

Range(f) == {f[i] : i \in DOMAIN f}

\* str.split(): the maximal runs of non-whitespace characters, in order.
RECURSIVE SplitFrom(_, _, _)
SplitFrom(s, i, cur) ==
    IF i > Len(s) THEN (IF cur = <<>> THEN <<>> ELSE <<cur>>)
    ELSE IF s[i] = " "
         THEN (IF cur = <<>> THEN SplitFrom(s, i + 1, <<>>)
               ELSE <<cur>> \o SplitFrom(s, i + 1, <<>>))
         ELSE SplitFrom(s, i + 1, Append(cur, s[i]))

split(s) == SplitFrom(s, 1, <<>>)

\* set(stri.split())
word_set(stri) == Range(split(stri))

\* sorted(searchstrs, key=len): stable, ascending in len().
InsertByLen(sorted, x) ==
    LET k == Cardinality({i \in 1..Len(sorted) : Len(sorted[i]) <= Len(x)})
    IN  SubSeq(sorted, 1, k) \o <<x>> \o SubSeq(sorted, k + 1, Len(sorted))

RECURSIVE sorted_by_len(_)
sorted_by_len(strs) ==
    IF strs = <<>> THEN <<>>
    ELSE InsertByLen(sorted_by_len(SubSeq(strs, 1, Len(strs) - 1)), strs[Len(strs)])

\* Variant of the inner loop that drops a string sharing one word with an
\* earlier kept string.
covered_by_shared_word(past_strs, ws) ==
    \E k \in 1..Len(past_strs) : \E p \in past_strs[k] : p \in ws

\* the inner for/else of filter_unnecessary_searchstrs: a string is dropped
\* when all words of some earlier kept string are among its words.
Covered(past_strs, ws) ==
    \E k \in 1..Len(past_strs) : \A p \in past_strs[k] : p \in ws

RECURSIVE FilterLoop(_, _, _, _)
FilterLoop(sorted, i, past_strs, new_strs) ==
    IF i > Len(sorted) THEN new_strs
    ELSE LET ws == word_set(sorted[i])
         IN  IF Covered(past_strs, ws)
             THEN FilterLoop(sorted, i + 1, past_strs, new_strs)
             ELSE FilterLoop(sorted, i + 1, Append(past_strs, ws),
                             Append(new_strs, sorted[i]))

filter_unnecessary_searchstrs(searchstrs) ==
    FilterLoop(sorted_by_len(searchstrs), 1, <<>>, <<>>)

\* ------------------------------------------------- values of the protocol
\* A group id as the code holds it: None, an int, or a str (the redirect
\* lookup returns the id as text).  v is the number it denotes.
None == [t |-> "none", v |-> 0]
IntId(n) == [t |-> "int", v |-> n]
StrId(n) == [t |-> "str", v |-> n]

\* Python truth value of a group id: None and 0 are falsy, "0" is not.
Truthy(g) == g.t = "str" \/ (g.t = "int" /\ g.v # 0)

GroupIds == {1, 2}

\* Release records of the browse API; two of them share a groupId.
Records == {[groupId |-> 1, groupYear |-> 1],
            [groupId |-> 1, groupYear |-> 2],
            [groupId |-> 2, groupYear |-> 1]}

\* What generate_dupe_check_searchstrs can return over two one-word strings.
QueryStrings == {<<"a">>, <<"b">>}
QueryLists == {filter_unnecessary_searchstrs(c) : c \in ListsUpTo(QueryStrings, 2)}

\* One line typed at a PresentingChoices prompt, by what the code tests:
\*   num        strip().isdigit() and int() succeeds, value n
\*   digitlike  strip().isdigit() but int() raises ValueError
\*   url_id / url_id_nan / url_torrentid / url_noparam
\*              a <base_url>/torrents.php URL with id=<n>, id=<not a number>,
\*              torrentid=..., or neither parameter
\*   a, d, n    lower() starts with that letter;  blank: strip() is empty
\*   other      everything else
Inputs ==
    {[kind |-> "num", n |-> k] : k \in 0..MaxNum}
    \cup {[kind |-> "url_id", n |-> k] : k \in {0} \cup GroupIds}
    \cup {[kind |-> k, n |-> 0] :
            k \in {"digitlike", "url_id_nan", "url_torrentid", "url_noparam",
                   "a", "d", "n", "blank", "other"}}

NoInput == [kind |-> "none", n |-> 0]

\* Answers at the Confirming prompt by the first character, lower-cased;
\* "" is the empty line, for which click.prompt returns the default "Y".
ConfirmAnswers == {"", "y", "n", "a", "d", "other"}

\* A similarity ratio or tolerance as a fraction n/d.
Frac(n, d) == [n |-> n, d |-> d]

\* "Default tolerance is 0.5"
DefaultTolerance == Frac(1, 2)

\* Values of cfg.upload.log_dupe_tolerance.
Tolerances == {Frac(0, 1), DefaultTolerance, Frac(2, 3)}

\* ------------------------------------------------------------------- state
VARIABLES
    fpc,        \* filter run: "off", "call" before, "done" after the call
    cands,      \* the candidate list handed to filter_unnecessary_searchstrs
    kept,       \* the list it returned
    pc,         \* position of the protocol
    entry,      \* "check" (check_existing_group) or "recheck" (recheck_dupe)
    searchstrs,             \* upload's query list before the call
    new_searchstrs,         \* recheck_dupe's re-derived query list
    queries,                \* the list check_existing_group was called with
    offer_deletion,         \* check_existing_group's parameter
    check_recent_uploads,   \* cfg.upload.requests.check_recent_uploads
    results,                \* get_search_results' aggregated list
    recent_uploads,         \* torrent ids of dupe_check_recent_torrents' hits
    prompt,                 \* "group", "recent": the prompt loop in use
    input,                  \* the line last read at PresentingChoices
    lookup_from,            \* "num", "url": who called the redirect lookup
    torrent_id,             \* the torrent id handed to the lookup
    via,                    \* how the prompt loop came to its return value
    group_id,               \* what the prompt loop returned
    outcome,                \* "none", "return" or the exception that left
    ret,                    \* the value returned
    abort_in,               \* the state an Abort was raised in
    batches,                \* search batches issued
    retry_yes,              \* retry prompts answered yes
    log_fetched,            \* the log was fetched
    listed,                 \* print_search_results ran
    listing,                \* the numbered results it printed
    detail_fetched,         \* torrentgroup detail was fetched
    last_prompt,            \* the prompt answered last
    last_answer,            \* its answer
    confirm_for,            \* the group id the Confirming prompt was about
    tasks,                  \* the requests of the batch being gathered
    completed,              \* the order in which its requests resolved
    outstanding,            \* requests of earlier batches not yet resolved
    asking,                 \* the request whose own retry prompt is open
    pages,                  \* the log page fetches being gathered
    log_uploads,            \* get_uploads_from_log's list
    tolerance,              \* cfg.upload.log_dupe_tolerance
    call,                   \* the function called last, with its arguments
    returned,               \* what that call handed back
    earlier,                \* the call made just before it, with its result
    upload_pc,              \* position of upload()
    upload_group_id,        \* upload's group_id
    upload_searchstrs,      \* upload's searchstrs: None or a list
    rls_strs,               \* the query list generated from rls_data
    meta_strs,              \* the query list generated from the edited metadata
    last_minute_dupe_check, \* cfg.upload.requests.last_minute_dupe_check
    multi_tracker_upload,   \* cfg.upload.multi_tracker_upload
    use_recycle_bin,        \* Windows and cfg.upload.windows_use_recycle_bin
    folder,                 \* "present", "deleted", "recycled"
    checks,                 \* the dupe-check steps run so far
    last_min,               \* what last_min_dupe_check did
    remaining_gazelle_sites,    \* trackers not yet uploaded to
    tracker,                \* the tracker of this pass of the loop, "" for none
    uploaded,               \* trackers uploaded to, in order
    upload_end,             \* "none", "return" or the exception that left
    THREADS,                \* downconverting.THREADS: a process or none per slot
    processes,              \* the converter processes started so far
    conv                    \* the call of _convert_files: position and locals

filter_vars == <<fpc, cands, kept>>
call_vars == <<entry, searchstrs, new_searchstrs, queries, offer_deletion,
               check_recent_uploads>>
search_vars == <<results, batches, retry_yes, listed, listing>>
log_vars == <<recent_uploads, log_fetched>>
choice_vars == <<prompt, input, lookup_from, torrent_id, group_id, via>>
confirm_vars == <<detail_fetched, confirm_for>>
end_vars == <<outcome, ret, abort_in>>
hist_vars == <<last_prompt, last_answer>>

gather_vars == <<tasks, completed, outstanding, asking>>
match_vars == <<pages, log_uploads, tolerance>>
calls_vars == <<call, returned, earlier>>
upload_vars == <<upload_pc, upload_group_id, upload_searchstrs, rls_strs, meta_strs,
                 last_minute_dupe_check, multi_tracker_upload, use_recycle_bin,
                 folder, checks, last_min, remaining_gazelle_sites, tracker,
                 uploaded, upload_end>>

\* the variables of the specifications of single functions
convert_vars == <<THREADS, processes, conv>>
unit_vars == <<filter_vars, gather_vars, match_vars, calls_vars, upload_vars,
               convert_vars>>

vars == <<unit_vars, pc, call_vars, search_vars, log_vars, choice_vars,
          confirm_vars, end_vars, hist_vars>>

\* Nothing of the protocol has happened yet.
ProtocolIdle ==
    /\ pc = "idle" /\ entry = "none"
    /\ new_searchstrs = <<>> /\ queries = <<>>
    /\ offer_deletion = TRUE
    /\ results = <<>> /\ batches = 0 /\ retry_yes = 0
    /\ listed = FALSE /\ listing = <<>>
    /\ recent_uploads = <<>> /\ log_fetched = FALSE
    /\ prompt = "none" /\ input = NoInput /\ lookup_from = "none"
    /\ torrent_id = 0 /\ via = "none"
    /\ group_id = None
    /\ detail_fetched = FALSE /\ confirm_for = None
    /\ outcome = "none" /\ ret = None /\ abort_in = "none"
    /\ last_prompt = "none" /\ last_answer = ""

\* No request and no log page fetch is under way.
GatherIdle ==
    /\ tasks = <<>> /\ completed = <<>> /\ outstanding = 0 /\ asking = 0
    /\ pages = <<>> /\ log_uploads = <<>>

\* upload's searchstrs: the parameter's default None, or a list.
NoList == [t |-> "none", v |-> <<>>]
List(l) == [t |-> "list", v |-> l]

\* No single function has been called.
NoCall == [fn |-> "none"]
CallsIdle == call = NoCall /\ returned = NoCall /\ earlier = NoCall

\* last_min_dupe_check has not run.
NoLastMin == [ran |-> FALSE]

\* upload() is not running.
UploadIdle ==
    /\ upload_pc = "off" /\ upload_group_id = None /\ upload_searchstrs = NoList
    /\ rls_strs = <<>> /\ meta_strs = <<>>
    /\ last_minute_dupe_check = FALSE /\ multi_tracker_upload = FALSE
    /\ use_recycle_bin = FALSE /\ folder = "present"
    /\ checks = <<>> /\ last_min = NoLastMin
    /\ remaining_gazelle_sites = <<>> /\ tracker = "" /\ uploaded = <<>>
    /\ upload_end = "none"

\* THREADS[i] is None
NoProcess == 0
\* poll() is None: the process has not exited
Running == -1
\* a local that has not been assigned; also the parameter sample_rate=None
Unbound == 0

\* _convert_files has not been called.
NoConv == [pc |-> "idle", n |-> 0, i |-> 0, files_convert |-> <<>>,
           files |-> <<>>, sample_rate |-> Unbound,
           final_sample_rate |-> Unbound, at_start |-> <<>>, end |-> "none",
           ret |-> Unbound]

\* The downconverter is not in use.
ConvertIdle == THREADS = <<>> /\ processes = <<>> /\ conv = NoConv

\* ------------------------------------------------- the filter, run on lists
InitFilter ==
    /\ fpc = "call"
    /\ cands \in ListsUpTo(Strings, MaxCands)
    /\ kept = <<>>
    /\ ProtocolIdle
    /\ GatherIdle
    /\ CallsIdle
    /\ UploadIdle
    /\ ConvertIdle
    /\ tolerance = DefaultTolerance
    /\ searchstrs = <<>>
    /\ check_recent_uploads = FALSE

CallFilter ==
    /\ fpc = "call"
    /\ kept' = filter_unnecessary_searchstrs(cands)
    /\ fpc' = "done"
    /\ UNCHANGED <<cands, gather_vars, match_vars, calls_vars, upload_vars,
                   convert_vars, pc, call_vars, search_vars,
                   log_vars, choice_vars, confirm_vars, end_vars, hist_vars>>

NextFilter == CallFilter

SpecFilter == InitFilter /\ [][NextFilter]_vars

\* ------------------------------------------------------------ the protocol
Init ==
    /\ fpc = "off" /\ cands = <<>> /\ kept = <<>>
    /\ ProtocolIdle
    /\ GatherIdle
    /\ CallsIdle
    /\ UploadIdle
    /\ ConvertIdle
    /\ tolerance = DefaultTolerance
    /\ searchstrs \in QueryLists
    /\ check_recent_uploads \in BOOLEAN

\* An exception leaves check_existing_group.
Raise(exc, where) ==
    /\ pc' = "done"
    /\ outcome' = exc
    /\ abort_in' = where
    /\ ret' = None

\* check_existing_group returns value.
Return(value) ==
    /\ pc' = "done"
    /\ outcome' = "return"
    /\ abort_in' = "none"
    /\ ret' = value

\* upload: the first dupe check, made when the query list is not empty.
CheckExistingGroup ==
    /\ pc = "idle"
    /\ Len(searchstrs) > 0
    /\ \E od \in BOOLEAN : offer_deletion' = od
    /\ entry' = "check"
    /\ queries' = searchstrs
    /\ pc' = "search"
    /\ batches' = 1
    /\ UNCHANGED <<unit_vars, searchstrs, new_searchstrs, check_recent_uploads,
                   results, retry_yes, listed, listing, log_vars, choice_vars,
                   confirm_vars, end_vars, hist_vars>>

\* Variant of recheck_dupe's test that compares the sizes of the two lists.
recheck_by_size(old, new) == Len(old) # Len(new)

\* recheck_dupe's test: some new string is not among the previous ones, or
\* there were none before and there are some now.
recheck_needed(old, new) ==
    \/ (old # <<>> /\ \E i \in 1..Len(new) : new[i] \notin Range(old))
    \/ (old = <<>> /\ new # <<>>)

RecheckDupe ==
    /\ pc = "idle"
    /\ \E new \in QueryLists :
        /\ new_searchstrs' = new
        /\ entry' = "recheck"
        /\ IF recheck_needed(searchstrs, new)
           THEN /\ queries' = new
                /\ pc' = "search"
                /\ batches' = 1
                /\ UNCHANGED end_vars
           ELSE /\ queries' = queries
                /\ batches' = batches
                /\ Return(None)
    /\ offer_deletion' = TRUE
    /\ UNCHANGED <<unit_vars, searchstrs, check_recent_uploads,
                   results, retry_yes, listed, listing, log_vars, choice_vars,
                   confirm_vars, hist_vars>>

\* ----------------------------------------------------- get_search_results
\* One batch: a response (a list of release records) per query string.
Responses(qs) == [1..Len(qs) -> ListsUpTo(Records, MaxPerQuery)]

\* Variant of the merge that takes a release as known when a result with
\* its groupId is already there.
RECURSIVE merge_releases_by_group(_, _, _)
merge_releases_by_group(res, releases, i) ==
    IF i > Len(releases) THEN res
    ELSE merge_releases_by_group(
            IF \E k \in 1..Len(res) : res[k].groupId = releases[i].groupId
            THEN res ELSE Append(res, releases[i]),
            releases, i + 1)

\* for release in releases["results"]: if release not in results: append
RECURSIVE merge_releases(_, _, _)
merge_releases(res, releases, i) ==
    IF i > Len(releases) THEN res
    ELSE merge_releases(IF releases[i] \in Range(res) THEN res
                        ELSE Append(res, releases[i]),
                        releases, i + 1)

\* for releases in gather(*tasks): ...  (request order)
RECURSIVE merge_batch(_, _, _)
merge_batch(res, batch, q) ==
    IF q > Len(batch) THEN res
    ELSE merge_batch(merge_releases(res, batch[q], 1), batch, q + 1)

\* print_search_results: the number shown with each result (r_index + 1).
print_search_results(res) ==
    [k \in 1..Len(res) |-> [num |-> (k - 1) + 1, groupId |-> res[k].groupId]]

\* Variant of the branch that uses the log matcher whenever the search
\* found nothing.
use_log_path_unflagged(res, flag) == res = <<>>

\* check_existing_group: the log matcher is used when the search found
\* nothing and recent-upload checking is on.
use_log_path(res, flag) == res = <<>> /\ flag

\* The batch succeeded; check_existing_group goes on to the log matcher or
\* lists the results and opens _prompt_for_group_id.
SearchOk ==
    /\ pc = "search"
    /\ \E batch \in Responses(queries) :
        LET res == merge_batch(results, batch, 1)
        IN  /\ results' = res
            /\ IF use_log_path(res, check_recent_uploads)
               THEN /\ pc' = "log"
                    /\ UNCHANGED <<listed, listing, prompt>>
               ELSE /\ listed' = TRUE
                    /\ listing' = print_search_results(res)
                    /\ prompt' = "group"
                    /\ pc' = "choices"
    /\ UNCHANGED <<unit_vars, call_vars, batches, retry_yes, log_vars, input,
                   lookup_from, torrent_id, group_id, via, confirm_vars,
                   end_vars, hist_vars>>

\* except click.Abort: raise  (the transport's own prompt was declined, or
\* the request timed out)
SearchAbort ==
    /\ pc = "search"
    /\ Raise("Abort", "search")
    /\ UNCHANGED <<unit_vars, call_vars, search_vars, log_vars, choice_vars,
                   confirm_vars, hist_vars>>

\* except Exception: the retry prompt is shown
SearchError ==
    /\ pc = "search"
    /\ pc' = "search_retry"
    /\ UNCHANGED <<unit_vars, call_vars, search_vars, log_vars, choice_vars,
                   confirm_vars, end_vars, hist_vars>>

\* Variant of the retry prompt in which a declined retry ends the search with
\* the results at hand instead of raising Abort.
SearchRetryGivesUp ==
    /\ pc = "search_retry"
    /\ \E yes \in BOOLEAN :
        /\ last_prompt' = "search_retry"
        /\ last_answer' = IF yes THEN "y" ELSE "n"
        /\ IF yes
           THEN /\ batches < MaxBatches
                /\ batches' = batches + 1
                /\ retry_yes' = retry_yes + 1
                /\ pc' = "search"
                /\ UNCHANGED <<listed, listing, prompt>>
           ELSE /\ listed' = TRUE
                /\ listing' = print_search_results(results)
                /\ prompt' = "group"
                /\ pc' = "choices"
                /\ UNCHANGED <<batches, retry_yes>>
    /\ UNCHANGED <<unit_vars, call_vars, results, log_vars, input,
                   lookup_from, torrent_id, group_id, via, confirm_vars,
                   end_vars>>

\* click.confirm("Would you like to retry the search?", default=True)
SearchRetry ==
    /\ pc = "search_retry"
    /\ \E yes \in BOOLEAN :
        /\ last_prompt' = "search_retry"
        /\ last_answer' = IF yes THEN "y" ELSE "n"
        /\ IF yes
           THEN /\ batches < MaxBatches
                /\ batches' = batches + 1
                /\ retry_yes' = retry_yes + 1
                /\ pc' = "search"
                /\ UNCHANGED end_vars
           ELSE /\ Raise("Abort", "search")
                /\ UNCHANGED <<batches, retry_yes>>
    /\ UNCHANGED <<unit_vars, call_vars, results, listed, listing, log_vars,
                   choice_vars, confirm_vars>>

\* --------------------------------------------- dupe_check_recent_torrents
\* The hits of the log matcher, by torrent id; the k-th hit is named k.
HitLists == {[k \in 1..n |-> k] : n \in 0..MaxLog}

\* recent_uploads[:5], the hits _prompt_for_recent_upload_results prints
shown_uploads(hits) ==
    SubSeq(hits, 1, IF Len(hits) < MaxShown THEN Len(hits) ELSE MaxShown)

LogMatch ==
    /\ pc = "log"
    /\ \E hits \in HitLists : recent_uploads' = hits
    /\ log_fetched' = TRUE
    /\ prompt' = "recent"
    /\ pc' = "choices"
    /\ UNCHANGED <<unit_vars, call_vars, search_vars, input, lookup_from,
                   torrent_id, group_id, via, confirm_vars, end_vars, hist_vars>>

\* ------------------------------------------------------ PresentingChoices
\* What one pass of a prompt loop does with the line it read.
StepReturn(value, how) == [to |-> "return", val |-> value, how |-> how, tid |-> 0]
StepRaise(exc) == [to |-> "raise", val |-> None, how |-> exc, tid |-> 0]
StepAgain == [to |-> "again", val |-> None, how |-> "none", tid |-> 0]
StepLookup(tid, from) == [to |-> "lookup", val |-> None, how |-> from, tid |-> tid]

\* Variant of the shared branches that takes the delete token whether or not
\* deletion was offered.
url_or_command_delete_always(inp, od) ==
    IF inp.kind = "url_id" THEN StepReturn(IntId(inp.n), "url")
    ELSE IF inp.kind = "url_id_nan" THEN StepRaise("ValueError")
    ELSE IF inp.kind = "url_torrentid" THEN StepLookup(0, "url")
    ELSE IF inp.kind = "url_noparam" THEN StepAgain
    ELSE IF inp.kind = "a" THEN StepRaise("Abort")
    ELSE IF inp.kind = "d" THEN StepRaise("AbortAndDeleteFolder")
    ELSE IF inp.kind \in {"n", "blank"} THEN StepReturn(None, "new")
    ELSE StepAgain

\* The branches both loops share: URL input and the action commands.
url_or_command(inp, od) ==
    IF inp.kind = "url_id" THEN StepReturn(IntId(inp.n), "url")
    ELSE IF inp.kind = "url_id_nan" THEN StepRaise("ValueError")
    ELSE IF inp.kind = "url_torrentid" THEN StepLookup(0, "url")
    ELSE IF inp.kind = "url_noparam" THEN StepAgain
    ELSE IF inp.kind = "a" THEN StepRaise("Abort")
    ELSE IF inp.kind = "d" /\ od THEN StepRaise("AbortAndDeleteFolder")
    ELSE IF inp.kind \in {"n", "blank"} THEN StepReturn(None, "new")
    ELSE StepAgain

\* Variant of _prompt_for_group_id that uses the typed number as the list
\* index without the "- 1".
prompt_for_group_id_zero_based(inp, res, od) ==
    IF inp.kind = "num"
    THEN LET idx == inp.n
         IN  IF idx < Len(res)
             THEN StepReturn(IntId(res[idx + 1].groupId), "index")
             ELSE StepReturn(IntId(idx), "literal")
    ELSE IF inp.kind = "digitlike" THEN StepRaise("ValueError")
    ELSE url_or_command(inp, od)

\* Variant of _prompt_for_group_id that returns the decremented number when
\* it is out of range (the "+ 1" left out).
prompt_for_group_id_no_restore(inp, res, od) ==
    IF inp.kind = "num"
    THEN LET typed == inp.n - 1
             idx == IF typed < 1 THEN 0 ELSE typed
         IN  IF idx < Len(res)
             THEN StepReturn(IntId(res[idx + 1].groupId), "index")
             ELSE StepReturn(IntId(idx), "literal")
    ELSE IF inp.kind = "digitlike" THEN StepRaise("ValueError")
    ELSE url_or_command(inp, od)

\* _prompt_for_group_id, one pass of its while loop
prompt_for_group_id(inp, res, od) ==
    IF inp.kind = "num"
    THEN LET typed == inp.n - 1
             idx == IF typed < 1 THEN 0 ELSE typed
         IN  IF idx < Len(res)
             THEN StepReturn(IntId(res[idx + 1].groupId), "index")
             ELSE StepReturn(IntId(idx + 1), "literal")
    ELSE IF inp.kind = "digitlike" THEN StepRaise("ValueError")
    ELSE url_or_command(inp, od)

\* _prompt_for_recent_upload_results, one pass of its while loop
prompt_for_recent_upload_results(inp, hits, od) ==
    IF inp.kind = "num"
    THEN LET num == IF inp.n = 0 THEN 1 ELSE inp.n
         IN  IF hits # <<>> /\ 1 <= num /\ num <= Len(hits)
             THEN StepLookup(hits[num], "num")
             ELSE StepReturn(IntId(num), "literal")
    ELSE IF inp.kind = "digitlike" THEN StepRaise("ValueError")
    ELSE url_or_command(inp, od)

\* Variant of check_existing_group that confirms only ids picked at the
\* structured-results prompt and returns log-path ids at once.
AfterPromptLogUnconfirmed(g, how) ==
    /\ group_id' = g
    /\ via' = how
    /\ IF Truthy(g) /\ prompt # "recent"
       THEN pc' = "print_torrents" /\ UNCHANGED end_vars
       ELSE Return(g)

\* check_existing_group, after the prompt loop returned g: a truthy id goes
\* to _confirm_group_id, anything else is returned as it is.
AfterPrompt(g, how) ==
    /\ group_id' = g
    /\ via' = how
    /\ IF Truthy(g)
       THEN pc' = "print_torrents" /\ UNCHANGED end_vars
       ELSE Return(g)

Apply(step) ==
    CASE step.to = "return" ->
            /\ AfterPrompt(step.val, step.how)
            /\ UNCHANGED <<lookup_from, torrent_id>>
      [] step.to = "raise" ->
            /\ Raise(step.how, "choices")
            /\ UNCHANGED <<lookup_from, torrent_id, group_id, via>>
      [] step.to = "again" ->
            /\ pc' = "choices"
            /\ UNCHANGED <<lookup_from, torrent_id, group_id, via, end_vars>>
      [] step.to = "lookup" ->
            /\ pc' = "redirect"
            /\ lookup_from' = step.how
            /\ torrent_id' = step.tid
            /\ UNCHANGED <<group_id, via, end_vars>>

PromptForGroupId ==
    /\ pc = "choices" /\ prompt = "group"
    /\ \E inp \in Inputs :
        /\ input' = inp
        /\ last_prompt' = "choices"
        /\ last_answer' = inp.kind
        /\ Apply(prompt_for_group_id(inp, results, offer_deletion))
    /\ UNCHANGED <<unit_vars, call_vars, search_vars, log_vars, prompt,
                   confirm_vars>>

PromptForRecentUploadResults ==
    /\ pc = "choices" /\ prompt = "recent"
    /\ \E inp \in Inputs :
        /\ input' = inp
        /\ last_prompt' = "choices"
        /\ last_answer' = inp.kind
        /\ Apply(prompt_for_recent_upload_results(inp, recent_uploads,
                                                  offer_deletion))
    /\ UNCHANGED <<unit_vars, call_vars, search_vars, log_vars, prompt,
                   confirm_vars>>

\* ------------------------------------------- get_redirect_torrentgroupid
\* Only the numeric branch of the recent-uploads loop wraps the lookup in
\* try/except Exception (click.Abort is an Exception) and prompts again.
lookup_failure_caught(loop, from) == loop = "recent" /\ from = "num"

LookupReturns(g) ==
    /\ AfterPrompt(g, "lookup")
    /\ UNCHANGED <<lookup_from, torrent_id>>

LookupRaisesAbort ==
    /\ IF lookup_failure_caught(prompt, lookup_from)
       THEN pc' = "choices" /\ UNCHANGED end_vars
       ELSE Raise("Abort", "redirect")
    /\ UNCHANGED <<lookup_from, torrent_id, group_id, via>>

\* the response redirects to the group: its id is returned as text
RedirectFound ==
    /\ pc = "redirect"
    /\ \E g \in GroupIds : LookupReturns(StrId(g))
    /\ UNCHANGED <<unit_vars, call_vars, search_vars, log_vars, prompt, input,
                   confirm_vars, hist_vars>>

\* the Location header has no id parameter: query.get("id", [None])[0]
RedirectWithoutId ==
    /\ pc = "redirect"
    /\ LookupReturns(None)
    /\ UNCHANGED <<unit_vars, call_vars, search_vars, log_vars, prompt, input,
                   confirm_vars, hist_vars>>

\* no Location header, or ConnectTimeout/ReadTimeout: click.Abort
RedirectFails ==
    /\ pc = "redirect"
    /\ LookupRaisesAbort
    /\ UNCHANGED <<unit_vars, call_vars, search_vars, log_vars, prompt, input,
                   confirm_vars, hist_vars>>

\* ConnectionError: the retry prompt of the lookup is shown
RedirectConnectionError ==
    /\ pc = "redirect"
    /\ pc' = "redirect_retry"
    /\ UNCHANGED <<unit_vars, call_vars, search_vars, log_vars, choice_vars,
                   confirm_vars, end_vars, hist_vars>>

RedirectRetry ==
    /\ pc = "redirect_retry"
    /\ \E yes \in BOOLEAN :
        /\ last_prompt' = "redirect_retry"
        /\ last_answer' = IF yes THEN "y" ELSE "n"
        /\ IF yes
           THEN /\ pc' = "redirect"
                /\ UNCHANGED <<lookup_from, torrent_id, group_id, via, end_vars>>
           ELSE LookupRaisesAbort
    /\ UNCHANGED <<unit_vars, call_vars, search_vars, log_vars, prompt, input,
                   confirm_vars>>

\* ------------------------------------------------------------- Confirming
\* _confirm_group_id: the search result whose groupId equals group_id (an
\* int; an id held as text equals none).
has_rset(g, res) == \E k \in 1..Len(res) : g = IntId(res[k].groupId)

\* print_torrents lists the group; the detail is fetched when no search
\* result is at hand or when a torrent is not a remaster.
PrintTorrents ==
    /\ pc = "print_torrents"
    /\ \E original \in BOOLEAN :
        detail_fetched' = (detail_fetched \/ ~has_rset(group_id, results)
                           \/ original)
    /\ confirm_for' = group_id
    /\ pc' = "confirm"
    /\ UNCHANGED <<unit_vars, call_vars, search_vars, log_vars, choice_vars,
                   end_vars, hist_vars>>

\* except RequestError: "<id> does not exist", click.Abort
PrintTorrentsUnknownGroup ==
    /\ pc = "print_torrents"
    /\ ~has_rset(group_id, results)
    /\ detail_fetched' = TRUE
    /\ Raise("Abort", "print_torrents")
    /\ UNCHANGED <<unit_vars, call_vars, search_vars, log_vars, choice_vars,
                   confirm_for, hist_vars>>

\* a torrent is not a remaster and the fetch of the group info for it fails:
\* that call is outside the try, the RequestError leaves the protocol
PrintTorrentsInfoFails ==
    /\ pc = "print_torrents"
    /\ detail_fetched' = TRUE
    /\ Raise("RequestError", "print_torrents")
    /\ UNCHANGED <<unit_vars, call_vars, search_vars, log_vars, choice_vars,
                   confirm_for, hist_vars>>

\* Variant of the Confirming prompt in which "n" confirms as well.
confirm_group_id_n_confirms(resp) ==
    IF resp = "a" THEN StepRaise("Abort")
    ELSE IF resp = "d" THEN StepRaise("AbortAndDeleteFolder")
    ELSE IF resp \in {"y", "n"} THEN StepReturn(group_id, "yes")
    ELSE StepAgain

\* Variant of the Confirming prompt in which "n" asks again.
confirm_group_id_n_asks_again(resp) ==
    IF resp = "a" THEN StepRaise("Abort")
    ELSE IF resp = "d" THEN StepRaise("AbortAndDeleteFolder")
    ELSE IF resp = "y" THEN StepReturn(group_id, "yes")
    ELSE StepAgain

\* the answers of the Confirming prompt
confirm_group_id(resp) ==
    IF resp = "a" THEN StepRaise("Abort")
    ELSE IF resp = "d" THEN StepRaise("AbortAndDeleteFolder")
    ELSE IF resp = "y" THEN StepReturn(group_id, "yes")
    ELSE IF resp = "n" THEN StepReturn(None, "no")
    ELSE StepAgain

\* click.prompt(..., default="Y")[0].lower(), then check_existing_group's
\* return: the id on True, None otherwise.
ConfirmGroupId ==
    /\ pc = "confirm"
    /\ \E ans \in ConfirmAnswers :
        LET resp == IF ans = "" THEN "y" ELSE ans
            step == confirm_group_id(resp)
        IN  /\ last_prompt' = "confirm"
            /\ last_answer' = ans
            /\ CASE step.to = "return" -> Return(step.val)
                 [] step.to = "raise" -> Raise(step.how, "confirm")
                 [] step.to = "again" -> pc' = "confirm" /\ UNCHANGED end_vars
    /\ UNCHANGED <<unit_vars, call_vars, search_vars, log_vars, choice_vars,
                   confirm_vars>>

Next ==
    \/ CheckExistingGroup
    \/ RecheckDupe
    \/ SearchOk
    \/ SearchAbort
    \/ SearchError
    \/ SearchRetry
    \/ LogMatch
    \/ PromptForGroupId
    \/ PromptForRecentUploadResults
    \/ RedirectFound
    \/ RedirectWithoutId
    \/ RedirectFails
    \/ RedirectConnectionError
    \/ RedirectRetry
    \/ PrintTorrents
    \/ PrintTorrentsUnknownGroup
    \/ PrintTorrentsInfoFails
    \/ ConfirmGroupId

Spec == Init /\ [][Next]_vars

\* ------------------------------------------------ difflib.SequenceMatcher
\* Positions are 1-based; a block <<i, j, k>> says a[i..i+k-1] = b[j..j+k-1].
MatchAt(a, i, b, j, k) == \A d \in 0..(k - 1) : a[i + d] = b[j + d]

\* the matching blocks inside a[alo..ahi-1] and b[blo..bhi-1]
Blocks(a, alo, ahi, b, blo, bhi) ==
    {c \in (alo..(ahi - 1)) \X (blo..(bhi - 1)) \X (1..(ahi - alo)) :
        /\ c[1] + c[3] <= ahi
        /\ c[2] + c[3] <= bhi
        /\ MatchAt(a, c[1], b, c[2], c[3])}

\* find_longest_match: a longest block; of those the one starting earliest
\* in a; of those the one starting earliest in b.  (No junk: the strings are
\* shorter than the 200 characters at which autojunk sets in.)
find_longest_match(a, alo, ahi, b, blo, bhi) ==
    LET bs == Blocks(a, alo, ahi, b, blo, bhi)
    IN  CHOOSE c \in bs :
            \A d \in bs :
                \/ c[3] > d[3]
                \/ (c[3] = d[3] /\ c[1] < d[1])
                \/ (c[3] = d[3] /\ c[1] = d[1] /\ c[2] <= d[2])

\* get_matching_blocks: the longest match, then the same to its left and to
\* its right; the sum of the block sizes.
RECURSIVE matches(_, _, _, _, _, _)
matches(a, alo, ahi, b, blo, bhi) ==
    IF Blocks(a, alo, ahi, b, blo, bhi) = {} THEN 0
    ELSE LET m == find_longest_match(a, alo, ahi, b, blo, bhi)
         IN  m[3] + matches(a, alo, m[1], b, blo, m[2])
                  + matches(a, m[1] + m[3], ahi, b, m[2] + m[3], bhi)

\* Variant of ratio() without the case of two empty strings.
ratio_of_nothing_is_zero(a, b) ==
    LET length == Len(a) + Len(b)
    IN  IF length = 0 THEN Frac(0, 1)
        ELSE Frac(2 * matches(a, 1, Len(a) + 1, b, 1, Len(b) + 1), length)

\* SM(None, a, b).ratio(): 2.0 * matches / length, and 1.0 when both strings
\* are empty.
ratio(a, b) ==
    LET length == Len(a) + Len(b)
    IN  IF length = 0 THEN Frac(1, 1)
        ELSE Frac(2 * matches(a, 1, Len(a) + 1, b, 1, Len(b) + 1), length)

\* x > y for fractions with positive denominators
Greater(x, y) == x.n * y.d > y.n * x.d

\* max(ratio, new_ratio)
max(x, y) == IF Greater(y, x) THEN y ELSE x

\* ----------------------------------- the strings rebuilt from a log entry
\* " ".join(words)
RECURSIVE Join(_)
Join(words) ==
    IF words = <<>> THEN <<>>
    ELSE IF Len(words) = 1 THEN words[1]
    ELSE words[1] \o <<" ">> \o Join(Tail(words))

\* str.lower(), on the upper-case letters the titles of the model hold
Upper == [P |-> "p", U |-> "u", V |-> "v"]
lower(s) ==
    [i \in 1..Len(s) |-> IF s[i] \in DOMAIN Upper THEN Upper[s[i]] ELSE s[i]]

\* the characters of the model outside letters, digits and blanks
Punctuation == {"/", "."}

\* normalisation of a search string: lower case, characters outside letters,
\* digits and blanks are removed, whitespace is collapsed
normalize(s) ==
    Join(split(SelectSeq(lower(s), LAMBDA c : c \notin Punctuation)))

\* make_searchstrs([[artist, "main"]], album, normalize=True): the artist
\* and the album as one normalised string; nothing when that string is empty
make_searchstrs(artist, album) ==
    LET base == normalize(artist \o <<" ">> \o album)
    IN  IF base = <<>> THEN <<>> ELSE <<base>>

\* album.split("/")[0]
RECURSIVE BeforeSlash(_)
BeforeSlash(album) ==
    IF album = <<>> \/ Head(album) = "/" THEN <<>>
    ELSE <<Head(album)>> \o BeforeSlash(Tail(album))

\* sub in s
Contains(s, sub) ==
    \E i \in 0..(Len(s) - Len(sub)) : SubSeq(s, i + 1, i + Len(sub)) = sub

\* "vol" stands at position i of s
VolAt(s, i) == i + 2 <= Len(s) /\ SubSeq(s, i, i + 2) = <<"v", "o", "l">>

\* re.search(r"vol[^u]", album.lower())
search_vol(album) ==
    LET low == lower(album)
    IN  \E i \in 1..Len(low) :
            VolAt(low, i) /\ i + 3 <= Len(low) /\ low[i + 3] # "u"

\* the end of the longest run of characters other than a blank from i on
RECURSIVE RunEnd(_, _)
RunEnd(s, i) ==
    IF i > Len(s) \/ s[i] = " " THEN i - 1 ELSE RunEnd(s, i + 1)

\* re.sub(r"vol[^ ]+", "volume", album, flags=re.IGNORECASE): "vol" and
\* at least one character other than a blank after it
RECURSIVE sub_vol(_, _)
sub_vol(album, i) ==
    IF i > Len(album) THEN <<>>
    ELSE IF VolAt(lower(album), i) /\ RunEnd(album, i + 3) >= i + 3
    THEN <<"v", "o", "l", "u", "m", "e">>
         \o sub_vol(album, RunEnd(album, i + 3) + 1)
    ELSE <<album[i]>> \o sub_vol(album, i + 1)

\* _sanitize_album_for_dupe_check on the titles of the model, which hold no
\* "feat" clause and no bracket: None and "" become "", every other title
\* is left as it is
sanitize_album_for_dupe_check(album) == IF album = <<>> THEN <<>> ELSE album

\* the candidates generate_dupe_check_searchstrs collects before it filters
\* them; a catno of None is the empty string here ("catno or ''", "catno and")
dupe_check_candidates(artist, title, catno) ==
    LET album == sanitize_album_for_dupe_check(title)
    IN  make_searchstrs(artist, album)
        \o (IF search_vol(album)
            THEN make_searchstrs(artist, sub_vol(album, 1)) ELSE <<>>)
        \o (IF Contains(lower(album), <<"u", "n", "t", "i", "t", "l", "e", "d">>)
            THEN make_searchstrs(artist, catno) ELSE <<>>)
        \o (IF "/" \in Range(album)
            THEN make_searchstrs(artist, BeforeSlash(album))
            ELSE IF catno # <<>> /\ Contains(lower(album), lower(catno))
            THEN make_searchstrs(artist, <<"u", "n", "t", "i", "t", "l", "e", "d">>)
            ELSE <<>>)

\* Variant of the generator whose candidate list outlives the call: the
\* candidates of the call before are still in it.
generate_dupe_check_searchstrs_keeps_list(artist, album, catno) ==
    filter_unnecessary_searchstrs(
        (IF returned = NoCall THEN <<>> ELSE returned.candidates)
        \o dupe_check_candidates(artist, album, catno))

generate_dupe_check_searchstrs(artist, album, catno) ==
    filter_unnecessary_searchstrs(dupe_check_candidates(artist, album, catno))

\* for comparison_string in possible_comparisons: ratio = max(ratio, ...)
RECURSIVE max_ratio(_, _, _, _)
max_ratio(searchstr, possible_comparisons, i, acc) ==
    IF i > Len(possible_comparisons) THEN acc
    ELSE max_ratio(searchstr, possible_comparisons, i + 1,
                   max(acc, ratio(searchstr, possible_comparisons[i])))

\* Variant of the tolerance test that also keeps a ratio equal to it.
hit_at_or_above(r, tol) == ~Greater(tol, r)

\* if ratio > cfg.upload.log_dupe_tolerance
hit(r, tol) == Greater(r, tol)

\* the score of a log entry against the primary query
score(searchstr, upload) ==
    max_ratio(searchstr,
              generate_dupe_check_searchstrs(upload.artist, upload.title, <<>>),
              1, Frac(0, 1))

\* the loop of dupe_check_recent_torrents over the uploads of the log
RECURSIVE recent_loop(_, _, _, _, _, _)
recent_loop(searchstr, uploads, i, seen, hits, tol) ==
    IF i > Len(uploads) THEN hits
    ELSE LET upload == uploads[i]
             torrent_str == upload.artist \o upload.title
         IN  IF torrent_str \in Range(seen)
             THEN recent_loop(searchstr, uploads, i + 1, seen, hits, tol)
             ELSE recent_loop(searchstr, uploads, i + 1,
                              Append(seen, torrent_str),
                              IF hit(score(searchstr, upload), tol)
                              THEN Append(hits, upload) ELSE hits,
                              tol)

dupe_check_recent_torrents(strs, uploads, tol) ==
    recent_loop(strs[1], uploads, 1, <<>>, <<>>, tol)

\* ------------------------------------------- the two fan-outs, in detail
\* get_search_results with its requests resolving one by one, then
\* check_existing_group's branch and, on the log path, get_uploads_from_log
\* with its page fetches and dupe_check_recent_torrents.

\* the log entries parse_uploads_from_log_html can hand over: an entry
\* without " - " has the empty artist
LogArtists == {<<>>, <<"b">>}
LogTitles == {<<>>, <<"a">>, <<"b", "a">>, <<"a", "b", "b">>, <<"a", "/", "b">>}

\* What one log page can hold; the torrent id of an upload is the page's number.
PageUploads(p) ==
    {<<>>} \cup {<<[id |-> p, artist |-> ar, title |-> ti]>> :
                    ar \in LogArtists, ti \in LogTitles}

\* what every action of the fan-outs leaves alone
gather_frame == <<filter_vars, calls_vars, upload_vars, convert_vars,
                  call_vars, tolerance,
                  input, lookup_from,
                  torrent_id, group_id, via, confirm_vars>>

\* What holds at the start of both fan-out specifications.
GatherStart ==
    /\ fpc = "off" /\ cands = <<>> /\ kept = <<>>
    /\ CallsIdle
    /\ UploadIdle
    /\ ConvertIdle
    /\ entry = "check"
    /\ searchstrs \in QueryLists \ {<<>>}
    /\ queries = searchstrs
    /\ new_searchstrs = <<>>
    /\ offer_deletion = TRUE
    /\ completed = <<>> /\ outstanding = 0 /\ asking = 0
    /\ log_uploads = <<>>
    /\ results = <<>> /\ retry_yes = 0
    /\ listed = FALSE /\ listing = <<>>
    /\ recent_uploads = <<>>
    /\ prompt = "none" /\ input = NoInput /\ lookup_from = "none"
    /\ torrent_id = 0 /\ via = "none"
    /\ group_id = None
    /\ detail_fetched = FALSE /\ confirm_for = None
    /\ outcome = "none" /\ ret = None /\ abort_in = "none"
    /\ last_prompt = "none" /\ last_answer = ""

\* check_existing_group is entered; the tolerance is the default one.
InitGather ==
    /\ GatherStart
    /\ pc = "call"
    /\ check_recent_uploads \in BOOLEAN
    /\ tolerance = DefaultTolerance
    /\ tasks = <<>> /\ pages = <<>>
    /\ batches = 0
    /\ log_fetched = FALSE

InFlight(ts) == {q \in 1..Len(ts) : ts[q].st = "flight"}

\* tasks = [gazelle_site.request("browse", ...) for searchstr in searchstrs]
\* and gather(*tasks): one request per query string, all dispatched.  The
\* unresolved requests of the batch before stay behind in the executor.
Gather ==
    /\ pc = "call"
    /\ tasks' = [q \in 1..Len(queries) |-> [st |-> "flight", releases |-> <<>>]]
    /\ completed' = <<>>
    /\ outstanding' = outstanding + Cardinality(InFlight(tasks))
    /\ batches' = batches + 1
    /\ pc' = "gather"
    /\ UNCHANGED <<gather_frame, asking, pages, log_uploads, results, retry_yes,
                   listed, listing, log_vars, prompt, end_vars, hist_vars>>

\* a request resolves with its response
RequestReturns ==
    /\ pc = "gather"
    /\ \E q \in InFlight(tasks), rel \in ListsUpTo(Records, MaxPerQuery) :
        /\ tasks' = [tasks EXCEPT ![q] = [st |-> "ok", releases |-> rel]]
        /\ completed' = Append(completed, q)
    /\ UNCHANGED <<gather_frame, outstanding, asking, pages, log_uploads, pc,
                   search_vars, log_vars, prompt, end_vars, hist_vars>>

\* Variant of RequestRaises in which get_search_results issues the next
\* batch without asking.
RequestRaisesRetriesSilently ==
    /\ pc = "gather"
    /\ batches < MaxBatches
    /\ \E q \in InFlight(tasks) :
        /\ tasks' = [tasks EXCEPT ![q].st = "raised"]
        /\ completed' = Append(completed, q)
    /\ pc' = "call"
    /\ UNCHANGED <<gather_frame, outstanding, asking, pages, log_uploads,
                   search_vars, log_vars, prompt, end_vars, hist_vars>>

\* a request raises RequestFailedError, LoginError or RateLimitException:
\* gather hands the first exception on at once, whatever else is in flight,
\* and get_search_results' "except Exception" shows its retry prompt
RequestRaises ==
    /\ pc = "gather"
    /\ \E q \in InFlight(tasks) :
        /\ tasks' = [tasks EXCEPT ![q].st = "raised"]
        /\ completed' = Append(completed, q)
    /\ pc' = "search_retry"
    /\ UNCHANGED <<gather_frame, outstanding, asking, pages, log_uploads,
                   search_vars, log_vars, prompt, end_vars, hist_vars>>

\* request(): except ConnectionError (a ConnectTimeout is one): the
\* request's own retry prompt is shown
RequestConnectionError ==
    /\ pc = "gather"
    /\ \E q \in InFlight(tasks) : asking' = q
    /\ pc' = "request_retry"
    /\ UNCHANGED <<gather_frame, tasks, completed, outstanding, pages,
                   log_uploads, search_vars, log_vars, prompt, end_vars,
                   hist_vars>>

\* click.confirm("Would you like to retry the request?"): yes sends the
\* request again, no raises click.Abort, which get_search_results re-raises
RequestRetry ==
    /\ pc = "request_retry"
    /\ \E yes \in BOOLEAN :
        /\ last_prompt' = "request_retry"
        /\ last_answer' = IF yes THEN "y" ELSE "n"
        /\ IF yes
           THEN /\ pc' = "gather"
                /\ UNCHANGED <<tasks, completed, end_vars>>
           ELSE /\ tasks' = [tasks EXCEPT ![asking].st = "raised"]
                /\ completed' = Append(completed, asking)
                /\ Raise("Abort", "search")
    /\ asking' = 0
    /\ UNCHANGED <<gather_frame, outstanding, pages, log_uploads, search_vars,
                   log_vars, prompt>>

\* request(): except (ConnectTimeout, ReadTimeout): a ReadTimeout prints
\* "timed out" and raises click.Abort without a prompt
RequestTimesOut ==
    /\ pc = "gather"
    /\ \E q \in InFlight(tasks) :
        /\ tasks' = [tasks EXCEPT ![q].st = "raised"]
        /\ completed' = Append(completed, q)
    /\ Raise("Abort", "search")
    /\ UNCHANGED <<gather_frame, outstanding, asking, pages, log_uploads,
                   search_vars, log_vars, prompt, hist_vars>>

\* click.confirm("Would you like to retry the search?"): yes goes round the
\* while loop, no raises click.Abort
RetrySearch ==
    /\ pc = "search_retry"
    /\ \E yes \in BOOLEAN :
        /\ last_prompt' = "search_retry"
        /\ last_answer' = IF yes THEN "y" ELSE "n"
        /\ IF yes
           THEN /\ batches < MaxBatches
                /\ retry_yes' = retry_yes + 1
                /\ pc' = "call"
                /\ UNCHANGED end_vars
           ELSE /\ Raise("Abort", "search")
                /\ UNCHANGED retry_yes
    /\ UNCHANGED <<gather_frame, gather_vars, pages, log_uploads, results,
                   batches, listed, listing, log_vars, prompt>>

\* a request of an earlier batch resolves while the loop runs the next
\* batch; nobody awaits it and its result is dropped
EarlierRequestResolves ==
    /\ pc = "gather"
    /\ outstanding > 0
    /\ outstanding' = outstanding - 1
    /\ UNCHANGED <<gather_frame, tasks, completed, asking, pages, log_uploads,
                   pc, search_vars, log_vars, prompt, end_vars, hist_vars>>

\* Variant of gather's result list in the order the requests resolved.
gathered_as_completed(ts, order) == [k \in 1..Len(ts) |-> ts[order[k]].releases]

\* what gather(*tasks) returns: the responses in the order of the tasks
gathered(ts, order) == [q \in 1..Len(ts) |-> ts[q].releases]

\* every request has resolved: the responses are merged and returned
GatherReturns ==
    /\ pc = "gather"
    /\ \A q \in 1..Len(tasks) : tasks[q].st = "ok"
    /\ results' = merge_batch(results, gathered(tasks, completed), 1)
    /\ pc' = "returned"
    /\ UNCHANGED <<gather_frame, gather_vars, pages, log_uploads, batches,
                   retry_yes, listed, listing, log_vars, prompt, end_vars,
                   hist_vars>>

\* check_existing_group after get_search_results: the log matcher's pages
\* are fetched (tasks = [fetch_log(i) ...], gather), or the results are
\* listed and _prompt_for_group_id opens
BranchAfterSearch ==
    /\ pc = "returned"
    /\ IF use_log_path(results, check_recent_uploads)
       THEN /\ pages' = [p \in 1..MaxPages |-> [st |-> "flight", uploads |-> <<>>]]
            /\ completed' = <<>>
            /\ log_fetched' = TRUE
            /\ pc' = "log_gather"
            /\ UNCHANGED <<listed, listing, prompt>>
       ELSE /\ listed' = TRUE
            /\ listing' = print_search_results(results)
            /\ prompt' = "group"
            /\ pc' = "choices"
            /\ UNCHANGED <<pages, completed, log_fetched>>
    /\ UNCHANGED <<gather_frame, tasks, outstanding, asking, log_uploads,
                   results, batches, retry_yes, recent_uploads, end_vars,
                   hist_vars>>

\* a page fetch resolves with the uploads parsed from it
FetchLogReturns ==
    /\ pc = "log_gather"
    /\ \E p \in InFlight(pages) : \E ups \in PageUploads(p) :
        /\ pages' = [pages EXCEPT ![p] = [st |-> "ok", uploads |-> ups]]
        /\ completed' = Append(completed, p)
    /\ UNCHANGED <<gather_frame, tasks, outstanding, asking, log_uploads, pc,
                   search_vars, log_vars, prompt, end_vars, hist_vars>>

\* fetch_log has no handler: a failed fetch leaves check_existing_group
FetchLogRaises ==
    /\ pc = "log_gather"
    /\ \E p \in InFlight(pages) :
        /\ pages' = [pages EXCEPT ![p].st = "raised"]
        /\ completed' = Append(completed, p)
    /\ Raise("ConnectionError", "log")
    /\ UNCHANGED <<gather_frame, tasks, outstanding, asking, log_uploads,
                   search_vars, log_vars, prompt, hist_vars>>

\* for page in gather(*tasks): recent_uploads += parse(page.text)
RECURSIVE get_uploads_from_log(_, _)
get_uploads_from_log(pgs, p) ==
    IF p > Len(pgs) THEN <<>>
    ELSE pgs[p].uploads \o get_uploads_from_log(pgs, p + 1)

\* every page is in: the uploads are matched against searchstrs[0] and
\* _prompt_for_recent_upload_results opens on the hits
DupeCheckRecentTorrents ==
    /\ pc = "log_gather"
    /\ \A p \in 1..Len(pages) : pages[p].st = "ok"
    /\ LET uploads == get_uploads_from_log(pages, 1)
           hits == dupe_check_recent_torrents(queries, uploads, tolerance)
       IN  /\ log_uploads' = uploads
           /\ recent_uploads' = [k \in 1..Len(hits) |-> hits[k].id]
    /\ prompt' = "recent"
    /\ pc' = "choices"
    /\ UNCHANGED <<gather_frame, gather_vars, pages, search_vars, log_fetched,
                   end_vars, hist_vars>>

NextGather ==
    \/ Gather
    \/ RequestReturns
    \/ RequestRaises
    \/ RequestConnectionError
    \/ RequestRetry
    \/ RequestTimesOut
    \/ RetrySearch
    \/ EarlierRequestResolves
    \/ GatherReturns
    \/ BranchAfterSearch
    \/ FetchLogReturns
    \/ FetchLogRaises
    \/ DupeCheckRecentTorrents

SpecGather == InitGather /\ [][NextGather]_vars

\* The log matcher alone, under every tolerance: the first batch found
\* nothing, recent-upload checking is on, and the log pages are being
\* fetched.
InitLog ==
    /\ GatherStart
    /\ pc = "log_gather"
    /\ check_recent_uploads = TRUE
    /\ tolerance \in Tolerances
    /\ tasks = [q \in 1..Len(queries) |-> [st |-> "ok", releases |-> <<>>]]
    /\ pages = [p \in 1..MaxPages |-> [st |-> "flight", uploads |-> <<>>]]
    /\ batches = 1
    /\ log_fetched = TRUE

NextLog ==
    \/ FetchLogReturns
    \/ FetchLogRaises
    \/ DupeCheckRecentTorrents

SpecLog == InitLog /\ [][NextLog]_vars

\* ------------------------------------------ parse_uploads_from_log_html
\* A <span class="log_upload"> of a log page, by what the parser reads:
\*   link   it holds an <a> with an href (the torrent id is href[23:])
\*   text   the text after the link: "none" (nothing follows the link),
\*          "noparen" (no "(...) (" in it), "paren" (the parenthesised part,
\*          split at " - " into parts)
LogElement(link, id, text, parts) ==
    [link |-> link, id |-> id, text |-> text, parts |-> parts]

LogElements ==
    {LogElement(TRUE, 1, "paren", <<<<"b">>, <<"a">>>>),
     LogElement(TRUE, 2, "paren", <<<<"a">>>>),
     LogElement(TRUE, 3, "paren", <<<<"b">>, <<"a">>, <<"a">>>>),
     LogElement(TRUE, 4, "noparen", <<>>),
     LogElement(TRUE, 5, "none", <<>>),
     LogElement(FALSE, 6, "paren", <<<<"b">>, <<"a">>>>)}

\* the body of the try: re.findall(...)[0].split(" - ") succeeds
TextParses(el) == el.text = "paren"

\* the tuple appended for an element whose text parses
log_upload(el) ==
    IF Len(el.parts) > 1
    THEN [id |-> el.id, artist |-> el.parts[1], title |-> el.parts[2]]
    ELSE [id |-> el.id, artist |-> <<>>, title |-> el.parts[1]]

\* What a call hands back: a value, or the exception that left it.
Returns(value) == [to |-> "return", val |-> value]
Raises(exc) == [to |-> "raise", val |-> exc]

\* Variant of the parser's loop that skips an element without a link.
RECURSIVE parse_loop_skips_linkless(_, _, _)
parse_loop_skips_linkless(entries, i, log_uploads_) ==
    IF i > Len(entries) THEN Returns(log_uploads_)
    ELSE IF ~entries[i].link \/ ~TextParses(entries[i])
    THEN parse_loop_skips_linkless(entries, i + 1, log_uploads_)
    ELSE parse_loop_skips_linkless(entries, i + 1,
                                   Append(log_uploads_, log_upload(entries[i])))

\* for entry in soup.find_all("span", class_="log_upload"): the href is read
\* before the try, so entry.find("a") being None raises TypeError; inside the
\* try every failure skips the element
RECURSIVE parse_loop(_, _, _)
parse_loop(entries, i, log_uploads_) ==
    IF i > Len(entries) THEN Returns(log_uploads_)
    ELSE IF ~entries[i].link THEN Raises("TypeError")
    ELSE IF ~TextParses(entries[i])
    THEN parse_loop(entries, i + 1, log_uploads_)
    ELSE parse_loop(entries, i + 1, Append(log_uploads_, log_upload(entries[i])))

parse_uploads_from_log_html(entries) == parse_loop(entries, 1, <<>>)

\* ------------------------------------------------ artist_rls, label_rls
\* SearchReleaseData, by the fields that tell two entries apart: the url is
\* built from the groupId alone.
SearchReleaseData(group) == [url |-> group.groupId, year |-> group.groupYear]

\* Variant of the dedupe that keeps every entry.
RECURSIVE dedupe_keeps_all(_, _, _)
dedupe_keeps_all(releases, i, acc) ==
    IF i > Len(releases) THEN acc
    ELSE dedupe_keeps_all(releases, i + 1, Append(acc, releases[i]))

\* Variant of the dedupe that moves a url to the place of its last entry.
RECURSIVE dedupe_at_last(_, _, _)
dedupe_at_last(releases, i, acc) ==
    IF i > Len(releases) THEN acc
    ELSE dedupe_at_last(releases, i + 1,
            Append(SelectSeq(acc, LAMBDA r : r.url # releases[i].url),
                   releases[i]))

\* list({r.url: r for r in releases}.values()): a dict keeps a key where it
\* was first inserted and the value that was assigned to it last
RECURSIVE dedupe(_, _, _)
dedupe(releases, i, acc) ==
    IF i > Len(releases) THEN acc
    ELSE dedupe(releases, i + 1,
            IF \E k \in 1..Len(acc) : acc[k].url = releases[i].url
            THEN [k \in 1..Len(acc) |->
                    IF acc[k].url = releases[i].url THEN releases[i] ELSE acc[k]]
            ELSE Append(acc, releases[i]))

\* What a browse page can hold: up to two different groups.
PageResults ==
    {<<>>} \cup {<<r>> : r \in Records}
    \cup UNION {{<<r1, r2>> : r2 \in Records \ {r1}} : r1 \in Records}

\* Values of the "pages" field of the first browse response.
PageCounts == {1, 2, 3}

\* range(2, max(3, pages))
page_loop(n_pages) ==
    LET stop == IF n_pages > 3 THEN n_pages ELSE 3
    IN  [k \in 1..(stop - 2) |-> k + 1]

\* the pages label_rls asks for, in order: the first request has no page
\* parameter and is answered with page 1
requested_pages(n_pages) == <<1>> \o page_loop(n_pages) \o <<1>>

RECURSIVE Concat(_)
Concat(lists) ==
    IF lists = <<>> THEN <<>> ELSE Head(lists) \o Concat(Tail(lists))

\* all_results: first_request["results"], the pages of the loop, page 1 again
all_results(first, later) == first.results \o Concat(later)

\* label_rls; later holds the results of the requests after the first
label_rls(first, later) ==
    IF ~first.has_pages
    THEN [requested |-> <<1>>, releases |-> <<>>]
    ELSE LET groups == all_results(first, later)
         IN  [requested |-> requested_pages(first.pages),
              releases |-> dedupe([k \in 1..Len(groups) |->
                                      SearchReleaseData(groups[k])], 1, <<>>)]

\* The groups of an artist page: with or without artists, an album (1), a
\* compilation (7) that credits the artist as DJ or not, a guest
\* appearance (1024).
ArtistGroup(id, year, artists, type, credited) ==
    [groupId |-> id, groupYear |-> year, artists |-> artists,
     releaseType |-> type, credited |-> credited]

ArtistGroups ==
    {ArtistGroup(1, 1, TRUE, 1, FALSE), ArtistGroup(1, 2, TRUE, 1, FALSE),
     ArtistGroup(2, 1, TRUE, 1, FALSE), ArtistGroup(2, 2, FALSE, 1, FALSE),
     ArtistGroup(2, 1, TRUE, 7, FALSE), ArtistGroup(1, 1, TRUE, 7, TRUE),
     ArtistGroup(2, 1, TRUE, 1024, FALSE)}

\* the three "continue" tests of artist_rls
artist_group_listed(group) ==
    /\ group.artists
    /\ ~(group.releaseType = 7 /\ ~group.credited)
    /\ group.releaseType \notin {1023, 1021, 1022, 1024}

artist_rls(torrentgroup) ==
    LET groups == SelectSeq(torrentgroup, artist_group_listed)
    IN  dedupe([k \in 1..Len(groups) |-> SearchReleaseData(groups[k])], 1, <<>>)

\* ------------------------------------------ single functions, called alone
\* most elements of one log page
MaxElems == 2
\* most groups of one artist page
MaxGroups == 2

\* The arguments generate_dupe_check_searchstrs is called with: the name of
\* the one main artist, the title, the catalogue number (empty for None).
GenArtists == {<<>>, <<"b">>}
GenTitles ==
    {<<>>, <<"a">>, <<"a", "/", "b">>,
     <<"P", "a", "r", "t", "y", " ", "V", "o", "l", " ", "3">>,
     <<"P", "a", "r", "t", "y", " ", "V", "o", "l", ".", " ", "3">>,
     <<"P", "a", "r", "t", "y", " ", "V", "o", "l", "u", "m", "e", " ", "3">>,
     <<"V", "o", "l", "3">>,
     <<"U", "n", "t", "i", "t", "l", "e", "d">>,
     <<"c", " ", "a">>}
GenCatnos == {<<>>, <<"c">>}

\* The first browse response of label_rls: with or without "pages".
FirstResponses ==
    {[has_pages |-> TRUE, pages |-> n, results |-> rs] :
        n \in PageCounts, rs \in PageResults}
    \cup {[has_pages |-> FALSE, pages |-> 0, results |-> rs] : rs \in PageResults}

\* The calls of the single functions, each with its arguments.
Calls ==
    {[fn |-> "generate_dupe_check_searchstrs", artist |-> artist,
      title |-> title, catno |-> catno] :
        artist \in GenArtists, title \in GenTitles, catno \in GenCatnos}
    \cup {[fn |-> "parse_uploads_from_log_html", entries |-> entries] :
            entries \in ListsUpTo(LogElements, MaxElems)}
    \cup UNION {{[fn |-> "label_rls", first |-> first, later |-> later] :
                    later \in IF first.has_pages
                              THEN ListsOfLen(PageResults,
                                        Len(requested_pages(first.pages)) - 1)
                              ELSE {<<>>}} :
                first \in FirstResponses}
    \cup {[fn |-> "artist_rls", torrentgroup |-> torrentgroup] :
            torrentgroup \in ListsUpTo(ArtistGroups, MaxGroups)}
    \cup {[fn |-> "ratio", a |-> a, b |-> b] : a \in Strings, b \in Strings}

\* One of the functions is about to be called.
InitCalls ==
    /\ fpc = "off" /\ cands = <<>> /\ kept = <<>>
    /\ ProtocolIdle
    /\ GatherIdle
    /\ UploadIdle
    /\ ConvertIdle
    /\ call \in Calls /\ returned = NoCall /\ earlier = NoCall
    /\ tolerance = DefaultTolerance
    /\ searchstrs = <<>>
    /\ check_recent_uploads = FALSE

calls_frame == <<filter_vars, gather_vars, match_vars, upload_vars,
                 convert_vars, pc,
                 call_vars, search_vars, log_vars, choice_vars, confirm_vars,
                 end_vars, hist_vars>>

\* the function named fn is called next
Calling(fn) == call.fn = fn /\ returned = NoCall

\* what a call of generate_dupe_check_searchstrs hands back, with the
\* candidates it collected on the way
generated(c) ==
    [to |-> "return",
     val |-> generate_dupe_check_searchstrs(c.artist, c.title, c.catno),
     candidates |-> dupe_check_candidates(c.artist, c.title, c.catno)]

\* generate_dupe_check_searchstrs(artists, album, catno)
CallGenerate ==
    /\ Calling("generate_dupe_check_searchstrs")
    /\ returned' = generated(call)
    /\ UNCHANGED <<call, earlier, calls_frame>>

\* generate_dupe_check_searchstrs is called once more, right after a call
\* of it has returned
CallGenerateAgain ==
    /\ call.fn = "generate_dupe_check_searchstrs"
    /\ returned # NoCall
    /\ \E artist \in GenArtists, title \in GenTitles, catno \in GenCatnos :
        LET c == [fn |-> call.fn, artist |-> artist, title |-> title,
                  catno |-> catno]
        IN  call' = c /\ returned' = generated(c)
    /\ earlier' = [call |-> call, searchstrs |-> returned.val]
    /\ UNCHANGED calls_frame

\* parse_uploads_from_log_html(page)
CallParseUploads ==
    /\ Calling("parse_uploads_from_log_html")
    /\ returned' = parse_uploads_from_log_html(call.entries)
    /\ UNCHANGED <<call, earlier, calls_frame>>

\* label_rls(label): the first response, then one response for each of the
\* requests that follow it
CallLabelRls ==
    /\ Calling("label_rls")
    /\ returned' = Returns(label_rls(call.first, call.later))
    /\ UNCHANGED <<call, earlier, calls_frame>>

\* artist_rls(artist)
CallArtistRls ==
    /\ Calling("artist_rls")
    /\ returned' = Returns(artist_rls(call.torrentgroup))
    /\ UNCHANGED <<call, earlier, calls_frame>>

\* SM(None, searchstr, comparison_string).ratio()
CallRatio ==
    /\ Calling("ratio")
    /\ returned' = Returns(ratio(call.a, call.b))
    /\ UNCHANGED <<call, earlier, calls_frame>>

NextCalls ==
    \/ CallGenerate
    \/ CallGenerateAgain
    \/ CallParseUploads
    \/ CallLabelRls
    \/ CallArtistRls
    \/ CallRatio

SpecCalls == InitCalls /\ [][NextCalls]_vars


\* --------------------------------------------------------------- upload()
\* upload() from its first dupe check to the end of its tracker loop, with
\* check_existing_group taken by the ways it can end.

\* salmon.trackers.tracker_list
TrackerList == <<"RED", "OPS">>

\* The ways check_existing_group(gazelle_site, strs, offer_deletion) ends.
\* With no query string the search finds nothing, and the log matcher, when
\* it is switched on, reads searchstrs[0] of the empty list.  Otherwise the
\* prompts decide: a group id or None is returned, Abort or, when deletion
\* is offered, AbortAndDeleteFolder is raised, or int() of a pasted id fails.
check_ends(strs, od) ==
    IF strs = <<>> /\ check_recent_uploads
    THEN {[end |-> "IndexError", gid |-> None]}
    ELSE {[end |-> "return", gid |-> g] : g \in {None, IntId(1)}}
         \cup {[end |-> e, gid |-> None] : e \in {"Abort", "ValueError"}}
         \cup (IF od THEN {[end |-> "AbortAndDeleteFolder", gid |-> None]}
               ELSE {})

\* One dupe-check step of upload(), the query list it was run with, and how
\* it ended.
Check(name, strs, end) == [step |-> name, strs |-> strs, end |-> end]

InitUpload ==
    /\ fpc = "off" /\ cands = <<>> /\ kept = <<>>
    /\ ProtocolIdle
    /\ GatherIdle
    /\ CallsIdle
    /\ ConvertIdle
    /\ tolerance = DefaultTolerance
    /\ searchstrs = <<>>
    /\ check_recent_uploads \in BOOLEAN
    /\ upload_pc = "dupe_check"
    /\ upload_group_id \in {None, IntId(1)}
    /\ upload_searchstrs = NoList
    /\ rls_strs \in QueryLists
    /\ meta_strs \in QueryLists
    /\ last_minute_dupe_check \in BOOLEAN
    /\ multi_tracker_upload \in BOOLEAN
    /\ use_recycle_bin \in BOOLEAN
    /\ folder = "present"
    /\ checks = <<>> /\ last_min = NoLastMin
    /\ remaining_gazelle_sites = <<>>
    /\ tracker \in Range(TrackerList)
    /\ uploaded = <<>>
    /\ upload_end = "none"

upload_frame == <<filter_vars, gather_vars, match_vars, calls_vars,
                  convert_vars, pc,
                  call_vars, search_vars, log_vars, choice_vars, confirm_vars,
                  end_vars, hist_vars>>
upload_cfg == <<rls_strs, meta_strs, last_minute_dupe_check,
                multi_tracker_upload, use_recycle_bin>>

\* An exception is raised inside upload's try: Abort is caught and upload
\* returns; AbortAndDeleteFolder is caught and the folder goes to the
\* recycle bin (which can fail) or is removed; anything else leaves upload.
EndInTry(exc) ==
    /\ upload_pc' = "ended"
    /\ CASE exc = "Abort" -> upload_end' = "aborted" /\ folder' = folder
         [] exc = "AbortAndDeleteFolder" ->
               IF use_recycle_bin
               THEN \E trashed \in BOOLEAN :
                       IF trashed
                       THEN upload_end' = "recycled" /\ folder' = "recycled"
                       ELSE upload_end' = "aborted" /\ folder' = folder
               ELSE upload_end' = "deleted" /\ folder' = "deleted"
         [] OTHER -> upload_end' = exc /\ folder' = folder

\* An exception is raised after the try: it leaves upload.
EndAfterTry(exc) ==
    /\ upload_pc' = "ended"
    /\ upload_end' = exc
    /\ folder' = folder

\* if group_id is None: searchstrs = generate(...); if len(searchstrs) > 0:
\* group_id = check_existing_group(gazelle_site, searchstrs)
InitialDupeCheck ==
    /\ upload_pc = "dupe_check"
    /\ IF upload_group_id = None
       THEN /\ upload_searchstrs' = List(rls_strs)
            /\ IF Len(rls_strs) > 0
               THEN \E e \in check_ends(rls_strs, TRUE) :
                    /\ checks' = Append(checks,
                                        Check("initial", List(rls_strs), e.end))
                    /\ IF e.end = "return"
                       THEN /\ upload_group_id' = e.gid
                            /\ upload_pc' = "metadata"
                            /\ UNCHANGED <<folder, upload_end>>
                       ELSE /\ EndInTry(e.end)
                            /\ UNCHANGED upload_group_id
               ELSE /\ upload_pc' = "metadata"
                    /\ UNCHANGED <<upload_group_id, checks, folder, upload_end>>
       ELSE /\ upload_pc' = "metadata"
            /\ UNCHANGED <<upload_group_id, upload_searchstrs, checks, folder,
                           upload_end>>
    /\ UNCHANGED <<upload_frame, upload_cfg, last_min, remaining_gazelle_sites,
                   tracker, uploaded>>

\* get_metadata and edit_metadata: the metadata is what the user made of it
EditMetadata ==
    /\ upload_pc = "metadata"
    /\ upload_pc' = "recheck"
    /\ UNCHANGED <<upload_frame, upload_cfg, upload_group_id, upload_searchstrs,
                   folder, checks, last_min, remaining_gazelle_sites, tracker,
                   uploaded, upload_end>>

\* edit_metadata raises click.Abort (a scene release that fails the
\* integrity check)
EditMetadataAborts ==
    /\ upload_pc = "metadata"
    /\ EndInTry("Abort")
    /\ UNCHANGED <<upload_frame, upload_cfg, upload_group_id, upload_searchstrs,
                   checks, last_min, remaining_gazelle_sites, tracker, uploaded>>

\* if not group_id: group_id = recheck_dupe(gazelle_site, searchstrs,
\* metadata), with recheck_dupe's own test and call
UploadRecheckDupe ==
    /\ upload_pc = "recheck"
    /\ IF ~Truthy(upload_group_id)
       THEN IF recheck_needed(upload_searchstrs.v, meta_strs)
            THEN \E e \in check_ends(meta_strs, TRUE) :
                 /\ checks' = Append(checks,
                                     Check("recheck", List(meta_strs), e.end))
                 /\ IF e.end = "return"
                    THEN /\ upload_group_id' = e.gid
                         /\ upload_pc' = "last_min"
                         /\ UNCHANGED <<folder, upload_end>>
                    ELSE /\ EndInTry(e.end)
                         /\ UNCHANGED upload_group_id
            ELSE /\ upload_group_id' = None
                 /\ upload_pc' = "last_min"
                 /\ UNCHANGED <<checks, folder, upload_end>>
       ELSE /\ upload_pc' = "last_min"
            /\ UNCHANGED <<upload_group_id, checks, folder, upload_end>>
    /\ UNCHANGED <<upload_frame, upload_cfg, upload_searchstrs, last_min,
                   remaining_gazelle_sites, tracker, uploaded>>

\* What last_min_dupe_check did: the list it was called with, calls of the
\* log matcher, structured searches, group selections, the hits, yes/no
\* prompts, the answer, how it ended.
LastMin(strs, hits, confirms, answer, end) ==
    [ran |-> TRUE, strs |-> strs, log_checks |-> 1, searches |-> 0,
     selections |-> 0, hits |-> hits, confirms |-> confirms,
     answer |-> answer, end |-> end, group_id |-> upload_group_id]

\* last_min_dupe_check(gazelle_site, searchstrs): dupe_check_recent_torrents
\* reads searchstrs[0] first, then fetches the log, which can fail; with hits
\* the one confirm decides
last_min_ends(strs) ==
    IF strs = NoList THEN {LastMin(strs, <<>>, 0, "", "TypeError")}
    ELSE IF strs.v = <<>> THEN {LastMin(strs, <<>>, 0, "", "IndexError")}
    ELSE {LastMin(strs, <<>>, 0, "", "RequestException")}
         \cup {LastMin(strs, <<>>, 0, "", "return")}
         \cup {LastMin(strs, hits, 1, "yes", "return") :
                hits \in HitLists \ {<<>>}}
         \cup {LastMin(strs, hits, 1, "no", "Abort") :
                hits \in HitLists \ {<<>>}}

\* if cfg.upload.requests.last_minute_dupe_check: last_min_dupe_check(
\* gazelle_site, searchstrs); then the tracker loop is set up and the query
\* list is generated again from rls_data
LastMinDupeCheck ==
    /\ upload_pc = "last_min"
    /\ \E lm \in IF last_minute_dupe_check
                  THEN last_min_ends(upload_searchstrs)
                  ELSE {NoLastMin} :
        /\ last_min' = lm
        /\ checks' = IF lm.ran
                     THEN Append(checks,
                                 Check("last_min", upload_searchstrs, lm.end))
                     ELSE checks
        /\ IF lm.ran /\ lm.end # "return"
           THEN /\ EndAfterTry(lm.end)
                /\ UNCHANGED <<upload_searchstrs, remaining_gazelle_sites>>
           ELSE /\ remaining_gazelle_sites' = TrackerList
                /\ upload_searchstrs' = List(rls_strs)
                /\ upload_pc' = "upload"
                /\ UNCHANGED <<folder, upload_end>>
    /\ UNCHANGED <<upload_frame, upload_cfg, upload_group_id, tracker, uploaded>>

\* Variant of the removal that takes the head of the list whichever tracker
\* was used.
remove_first(sites, site) == Tail(sites)

\* remaining_gazelle_sites.remove(tracker)
remove(sites, site) == SelectSeq(sites, LAMBDA t : t # site)

\* the rest of a pass of the loop: the tracker is taken off the list, the
\* torrent is uploaded to the group or to a new one, tracker = None, and the
\* loop ends when no tracker is left or multi_tracker_upload is off
UploadToTracker ==
    /\ upload_pc = "upload"
    /\ remaining_gazelle_sites' = remove(remaining_gazelle_sites, tracker)
    /\ uploaded' = Append(uploaded, tracker)
    /\ upload_group_id' = IF Truthy(upload_group_id) THEN upload_group_id
                          ELSE IntId(2)
    /\ tracker' = ""
    /\ IF remaining_gazelle_sites' = <<>> \/ ~multi_tracker_upload
       THEN upload_pc' = "ended" /\ upload_end' = "done"
       ELSE upload_pc' = "choose" /\ upload_end' = upload_end
    /\ UNCHANGED <<upload_frame, upload_cfg, upload_searchstrs, folder, checks,
                   last_min>>

\* if not tracker: choose_tracker(remaining_gazelle_sites); none ends the
\* loop; otherwise searchstrs is generated from rls_data and
\* group_id = check_existing_group(gazelle_site, searchstrs, metadata)
ChooseTracker ==
    /\ upload_pc = "choose"
    /\ \E choice \in Range(remaining_gazelle_sites) \cup {""} :
        IF choice = ""
        THEN /\ upload_pc' = "ended" /\ upload_end' = "done"
             /\ UNCHANGED <<tracker, upload_searchstrs, upload_group_id, checks,
                            folder>>
        ELSE /\ tracker' = choice
             /\ upload_searchstrs' = List(rls_strs)
             /\ \E e \in check_ends(rls_strs, TRUE) :
                 /\ checks' = Append(checks,
                                     Check("tracker", List(rls_strs), e.end))
                 /\ IF e.end = "return"
                    THEN /\ upload_group_id' = e.gid
                         /\ upload_pc' = "upload"
                         /\ UNCHANGED <<folder, upload_end>>
                    ELSE /\ EndAfterTry(e.end)
                         /\ UNCHANGED upload_group_id
    /\ UNCHANGED <<upload_frame, upload_cfg, last_min, remaining_gazelle_sites,
                   uploaded>>

NextUpload ==
    \/ InitialDupeCheck
    \/ EditMetadata
    \/ EditMetadataAborts
    \/ UploadRecheckDupe
    \/ LastMinDupeCheck
    \/ UploadToTracker
    \/ ChooseTracker

SpecUpload == InitUpload /\ [][NextUpload]_vars

\* upload() is one sequential run: it takes its next step whenever it has
\* one (the prompts are answered).
SpecUploadFair == SpecUpload /\ WF_vars(NextUpload)

\* ------------------------------------------------------- _convert_files()
\* The slots of the downconverter: THREADS is made once, when the module is
\* loaded, and every call of _convert_files works on it.  The converter
\* processes (sox) run on their own and exit when they exit.

\* the sample rates of the 24-bit files of a folder: one that is a multiple
\* of 48000 and one that is a multiple neither of 44100 nor of 48000
SampleRates == {96000, 32000}

\* files_convert: the files to convert, each with its sample rate
FileLists ==
    UNION {{[k \in 1..n |-> [file |-> k, rate |-> rates[k]]] :
                rates \in [1..n -> SampleRates]} : n \in 0..MaxFiles}

\* _get_final_sample_rate: 44100 or 48000, whichever divides the rate;
\* Unbound stands for raise InvalidSampleRate
get_final_sample_rate(sample_rate) ==
    IF sample_rate % 44100 = 0 THEN 44100
    ELSE IF sample_rate % 48000 = 0 THEN 48000
    ELSE Unbound

\* THREADS = [None] * cfg.upload.simultaneous_threads, at import
InitConvert ==
    /\ fpc = "off" /\ cands = <<>> /\ kept = <<>>
    /\ ProtocolIdle
    /\ GatherIdle
    /\ CallsIdle
    /\ UploadIdle
    /\ tolerance = DefaultTolerance
    /\ searchstrs = <<>>
    /\ check_recent_uploads = FALSE
    /\ \E simultaneous_threads \in 1..MaxSlots :
        THREADS = [i \in 1..simultaneous_threads |-> NoProcess]
    /\ processes = <<>>
    /\ conv = NoConv

convert_frame == <<filter_vars, gather_vars, match_vars, calls_vars,
                   upload_vars, pc, call_vars, search_vars, log_vars,
                   choice_vars, confirm_vars, end_vars, hist_vars>>

\* convert_folder calls _convert_files(path, new_path, files_convert,
\* files_copy, bit_depth, sample_rate): files = iter(files_convert), the
\* other files are copied, and the polling loop is entered
ConvertFiles ==
    /\ conv.pc \in {"idle", "done"}
    /\ conv.n < MaxConvCalls
    /\ \E files_convert \in FileLists, sample_rate \in {Unbound, 44100} :
        conv' = [pc |-> "for", n |-> conv.n + 1, i |-> 1,
                 files_convert |-> files_convert, files |-> files_convert,
                 sample_rate |-> sample_rate, final_sample_rate |-> Unbound,
                 at_start |-> THREADS, end |-> "none", ret |-> Unbound]
    /\ UNCHANGED <<THREADS, processes, convert_frame>>

\* thread.poll() is not None
finished(thread) ==
    thread # NoProcess /\ processes[thread].returncode # Running

\* the for loop moves to the next slot, or is through
next_slot(c) ==
    IF c.i < Len(THREADS) THEN [c EXCEPT !.i = c.i + 1]
    ELSE [c EXCEPT !.pc = "all_free"]

\* Variant of the loop's test of a slot that hands out a file whenever
\* files are left.
slot_is_free_always(threads, i) == TRUE

\* if THREADS[i] is None
slot_is_free(threads, i) == threads[i] = NoProcess

\* One pass of the body of `for i, thread in enumerate(THREADS)`: a
\* finished process with a non-zero code raises Abort, one with code 0
\* frees its slot; a free slot takes the next file, if there is one, and
\* _convert_single_file starts its process.
ForBody ==
    /\ conv.pc = "for"
    /\ LET i == conv.i
           thread == THREADS[i]
           freed == IF finished(thread) THEN [THREADS EXCEPT ![i] = NoProcess]
                    ELSE THREADS
       IN  IF finished(thread) /\ processes[thread].returncode # 0
           THEN /\ conv' = [conv EXCEPT !.pc = "done", !.end = "Abort"]
                /\ UNCHANGED <<THREADS, processes>>
           ELSE IF slot_is_free(freed, i) /\ conv.files # <<>>
           THEN LET f == Head(conv.files)
                    rate == IF conv.sample_rate # Unbound THEN conv.sample_rate
                            ELSE get_final_sample_rate(f.rate)
                IN  IF rate = Unbound
                    THEN /\ conv' = [conv EXCEPT !.pc = "done",
                                                 !.files = Tail(conv.files),
                                                 !.end = "InvalidSampleRate"]
                         /\ THREADS' = freed
                         /\ UNCHANGED processes
                    ELSE /\ processes' =
                              Append(processes,
                                     [file |-> f.file, call |-> conv.n,
                                      returncode |-> Running])
                         /\ THREADS' =
                              [freed EXCEPT ![i] = Len(processes) + 1]
                         /\ conv' = next_slot(
                              [conv EXCEPT !.files = Tail(conv.files),
                                           !.final_sample_rate = rate])
           ELSE /\ THREADS' = freed
                /\ conv' = next_slot(conv)
                /\ UNCHANGED processes
    /\ UNCHANGED convert_frame

\* if all(t is None for t in THREADS): break, and return final_sample_rate,
\* which is an UnboundLocalError when no file was started; otherwise
\* time.sleep(0.1) and the for loop again
EndOfPass ==
    /\ conv.pc = "all_free"
    /\ IF \A k \in 1..Len(THREADS) : THREADS[k] = NoProcess
       THEN IF conv.final_sample_rate = Unbound
            THEN conv' = [conv EXCEPT !.pc = "done",
                                      !.end = "UnboundLocalError"]
            ELSE conv' = [conv EXCEPT !.pc = "done", !.end = "return",
                                      !.ret = conv.final_sample_rate]
       ELSE conv' = [conv EXCEPT !.pc = "for", !.i = 1]
    /\ UNCHANGED <<THREADS, processes, convert_frame>>

\* A converter process exits, with code 0 or with an error.
ProcessExits ==
    /\ \E p \in 1..Len(processes), returncode \in {0, 1} :
        /\ processes[p].returncode = Running
        /\ processes' = [processes EXCEPT ![p].returncode = returncode]
    /\ UNCHANGED <<THREADS, conv, convert_frame>>

NextConvert ==
    \/ ConvertFiles
    \/ ForBody
    \/ EndOfPass
    \/ ProcessExits

SpecConvert == InitConvert /\ [][NextConvert]_vars

\* ------------------------------------------------------------------ claims
StrictSuperset(A, B) == B \subseteq A /\ A # B

\* C1: the list returned by filter_unnecessary_searchstrs holds no two
\* members s, t with the word set of s a strict superset of the word set of
\* t, for every candidate list (repeated words and empty strings included).
C1_NoStrictSuperset ==
    fpc = "done" =>
        \A i, j \in 1..Len(kept) :
            ~StrictSuperset(word_set(kept[i]), word_set(kept[j]))

\* check_existing_group has returned an existing group (a truthy id).
ExistingGroup == pc = "done" /\ outcome = "return" /\ Truthy(ret)

\* C2: check_existing_group returns a group id only if the Confirming
\* prompt was shown for that id and answered yes (or with the default) as
\* the last prompt; in Confirming "a" ends with Abort, "d" with
\* AbortAndDeleteFolder, and an answer other than y/n/a/d asks again.
C2_ExistingGroupOnlyAfterYes ==
    /\ ExistingGroup =>
        (last_prompt = "confirm" /\ last_answer \in {"", "y"}
         /\ confirm_for = ret)
    /\ (last_prompt = "confirm" /\ last_answer = "a") =>
        (pc = "done" /\ outcome = "Abort")
    /\ (last_prompt = "confirm" /\ last_answer = "d") =>
        (pc = "done" /\ outcome = "AbortAndDeleteFolder")
    /\ (last_prompt = "confirm" /\ last_answer = "other") => pc = "confirm"

C2_Witness ==
    ExistingGroup /\ last_prompt = "confirm" /\ last_answer = ""
    /\ via = "index"

\* C3: a group id resolved on the log path skips Confirming: no
\* confirmation prompt, no group detail fetched, and the run ends as
\* ExistingGroup with that id.
C3_LogPathSkipsConfirming ==
    (prompt = "recent" /\ Truthy(group_id)) =>
        /\ ExistingGroup /\ ret = group_id
        /\ last_prompt # "confirm"
        /\ ~detail_fetched

\* C3 as the code has it: a group id resolved on the log path goes through
\* Confirming like any other: the group detail is fetched live, the
\* confirmation prompt is shown, and the run ends as ExistingGroup with that
\* id only after a yes (or default) answer.
C3_LogPathConfirms ==
    (prompt = "recent" /\ Truthy(group_id)) =>
        /\ pc \in {"print_torrents", "confirm", "done"}
        /\ pc # "print_torrents" => detail_fetched
        /\ pc = "confirm" => confirm_for = group_id
        /\ (pc = "done" /\ outcome = "return") => last_prompt = "confirm"
        /\ ExistingGroup =>
            (ret = group_id /\ confirm_for = group_id
             /\ last_answer \in {"", "y"})

C3_Witness ==
    prompt = "recent" /\ ExistingGroup /\ via = "lookup"
    /\ lookup_from = "num"

\* The protocol was run by recheck_dupe: a search batch was issued.
Rechecked == batches > 0

PresentedCount ==
    IF prompt = "group" THEN Len(results)
    ELSE Len(shown_uploads(recent_uploads))

\* An abort token, a new token, blank, the number of a presented candidate,
\* or a site torrent URL with a numeric id or a torrentid.
ValidTerminalInput(inp) ==
    \/ inp.kind \in {"a", "n", "blank", "url_id", "url_torrentid"}
    \/ (inp.kind = "num" /\ inp.n \in 1..PresentedCount)

\* C5: in both prompt loops the first valid terminal input ends the loop
\* with a return or an Abort; the prompt is not shown again after it.
C5_ValidInputEndsLoop ==
    ValidTerminalInput(input) =>
        /\ pc # "choices"
        /\ (pc = "done" /\ abort_in \in {"choices", "redirect"}) =>
            outcome = "Abort"

\* C6: an Abort raised in Searching leaves check_existing_group: no log
\* fetch, no result listing, no PresentingChoices and no Confirming prompt
\* follows; a declined retry prompt is such an Abort.
C6_SearchAbortLeaves ==
    /\ abort_in = "search" =>
        (pc = "done" /\ outcome = "Abort"
         /\ ~log_fetched /\ ~listed /\ prompt = "none" /\ input = NoInput
         /\ last_prompt \in {"none", "search_retry"}
         /\ confirm_for = None /\ ~detail_fetched)
    /\ (last_prompt = "search_retry" /\ last_answer = "n") =>
        (abort_in = "search" /\ pc = "done")

C6_Witness ==
    abort_in = "search" /\ last_prompt = "search_retry" /\ last_answer = "n"
    /\ retry_yes > 0

\* C7: in the recent-uploads prompt a number is resolved to a log hit only
\* if that hit was presented (one of the first five); a number beyond the
\* presented hits is taken literally as a group id.
C7_OnlyShownHitsResolved ==
    /\ lookup_from = "num" =>
        torrent_id \in Range(shown_uploads(recent_uploads))
    /\ (prompt = "recent" /\ input.kind = "num"
        /\ input.n > Len(shown_uploads(recent_uploads))) =>
        (via = "literal" /\ group_id = IntId(input.n))

\* C8: in both prompts every numeric input n outside 1..k (k presented
\* candidates) is returned unchanged as the group id n, 0 included.
C8_OutOfRangeUnchanged ==
    (input.kind = "num" /\ input.n \notin 1..PresentedCount) =>
        (via = "literal" /\ group_id = IntId(input.n))

\* The candidates the prompt in use indexes: all results, all log hits.
IndexedCount ==
    IF prompt = "group" THEN Len(results) ELSE Len(recent_uploads)

\* C8 as the code has it: the input 0 is treated as 1, and a number (after
\* that) is returned unchanged as the group id exactly when it is larger
\* than the number of candidates the prompt indexes.
C8_OutOfRangeFromOne ==
    input.kind = "num" =>
        LET num == IF input.n = 0 THEN 1 ELSE input.n
        IN  /\ num > IndexedCount =>
                (via = "literal" /\ group_id = IntId(num))
            /\ via = "literal" => num > IndexedCount

C8_Witness ==
    /\ input.kind = "num" /\ via = "literal" /\ prompt = "group"
    /\ results # <<>> /\ input.n = Len(results) + 1
    /\ ExistingGroup /\ ret = IntId(input.n)

\* C9: the structured results are listed with the numbers 1, 2, ..., and
\* in _prompt_for_group_id a number n in 1..len(results) returns the groupId
\* of the n-th listed result.
C9_IndexReturnsNthResult ==
    /\ listed =>
        /\ Len(listing) = Len(results)
        /\ \A k \in 1..Len(listing) :
            listing[k].num = k /\ listing[k].groupId = results[k].groupId
    /\ (prompt = "group" /\ input.kind = "num"
        /\ input.n \in 1..Len(results)) =>
        (via = "index" /\ group_id = IntId(listing[input.n].groupId))

C9_Witness ==
    /\ prompt = "group" /\ input.kind = "num" /\ input.n = 2
    /\ Len(results) >= 2 /\ results[1].groupId # results[2].groupId
    /\ via = "index" /\ group_id = IntId(results[2].groupId)

\* C10: every input that is no valid abort, delete, new, numeric or URL
\* selection (a site URL without id/torrentid or with a non-numeric id, a
\* digit-like string that is no decimal integer) shows the prompt again; only
\* Abort and AbortAndDeleteFolder leave the prompt loops as exceptions.
C10_BadInputAsksAgain ==
    /\ input.kind \in {"url_noparam", "url_id_nan", "digitlike", "other"} =>
        pc = "choices"
    /\ abort_in \in {"choices", "redirect"} =>
        outcome \in {"Abort", "AbortAndDeleteFolder"}

\* C11: at PresentingChoices the delete token is accepted only if deletion
\* was offered: with offer_deletion an input starting with "d" raises
\* AbortAndDeleteFolder; without it the same input never raises
\* AbortAndDeleteFolder and the prompt is shown again.
C11_DeleteOnlyIfOffered ==
    /\ (input.kind = "d" /\ offer_deletion) =>
        (pc = "done" /\ outcome = "AbortAndDeleteFolder"
         /\ abort_in = "choices")
    /\ (input.kind = "d" /\ ~offer_deletion) =>
        (pc = "choices" /\ outcome = "none")
    /\ (outcome = "AbortAndDeleteFolder" /\ abort_in = "choices") =>
        (offer_deletion /\ input.kind = "d")

C11_Witness ==
    input.kind = "d" /\ ~offer_deletion /\ pc = "choices" /\ prompt = "recent"

\* C12: answering "new" in Confirming ends the protocol as NewGroup:
\* check_existing_group returns no group id and nothing of the protocol
\* (PresentingChoices included) follows in that call.
C12_NewInConfirmingEnds ==
    (last_prompt = "confirm" /\ last_answer = "n") =>
        /\ pc = "done" /\ outcome = "return" /\ ret = None
        /\ Truthy(confirm_for)
        /\ ~ENABLED Next

C12_Witness ==
    /\ last_prompt = "confirm" /\ last_answer = "n" /\ pc = "done"
    /\ via = "index" /\ ret = None /\ Truthy(group_id)

\* The responses of the batch get_search_results returned from, by request.
ResponseOf(q) == tasks[q].releases

\* Where a record first appears in the batch: query order, then position.
Appearances(r) ==
    {<<q, k>> \in (1..Len(tasks)) \X (1..MaxPerQuery) :
        k <= Len(ResponseOf(q)) /\ ResponseOf(q)[k] = r}

Before(x, y) == x[1] < y[1] \/ (x[1] = y[1] /\ x[2] < y[2])

FirstAppearance(r) ==
    CHOOSE x \in Appearances(r) : \A y \in Appearances(r) : x = y \/ Before(x, y)

\* get_search_results has returned its list.
SearchReturned == pc \in {"returned", "log_gather", "choices"}

\* C13: the list get_search_results returns holds every record of every
\* response of the successful batch and nothing else, holds no record
\* twice (equal records of different queries collapse to one), keeps records
\* that share a groupId and differ in another field, and is ordered by first
\* appearance (query order, then position in the response), also after
\* retried batches.
C13_AggregatedFirstSeen ==
    SearchReturned =>
        /\ \A q \in 1..Len(tasks) : Range(ResponseOf(q)) \subseteq Range(results)
        /\ \A i \in 1..Len(results) : Appearances(results[i]) # {}
        /\ \A i, j \in 1..Len(results) : i # j => results[i] # results[j]
        /\ \A i, j \in 1..Len(results) :
            i < j => Before(FirstAppearance(results[i]),
                            FirstAppearance(results[j]))

C13_Witness ==
    /\ pc = "returned" /\ retry_yes > 0 /\ Len(tasks) = 2
    /\ Range(ResponseOf(1)) \cap Range(ResponseOf(2)) # {}
    /\ \E i, j \in 1..Len(results) :
        i # j /\ results[i].groupId = results[j].groupId

\* C14: in whatever order the requests of a batch (and the log page
\* fetches) resolve, the merged result is the same: the responses are
\* merged in request order and the pages in page order, and the log
\* matcher's hits are in log order, not in score order.
C14_MergeInRequestOrder ==
    /\ SearchReturned =>
        results = merge_batch(<<>>, [q \in 1..Len(tasks) |-> ResponseOf(q)], 1)
    /\ (pc = "choices" /\ prompt = "recent") =>
        /\ \A i, j \in 1..Len(log_uploads) : i < j => log_uploads[i].id < log_uploads[j].id
        /\ Range(log_uploads) = UNION {Range(pages[p].uploads) : p \in 1..Len(pages)}
        /\ \A i, j \in 1..Len(recent_uploads) :
            i < j => recent_uploads[i] < recent_uploads[j]

C14_Witness ==
    /\ pc = "returned" /\ Len(tasks) = 2 /\ completed = <<2, 1>>
    /\ ResponseOf(1) # <<>> /\ ResponseOf(2) # <<>>
    /\ ResponseOf(2)[1] \notin Range(ResponseOf(1))
    /\ results[1] = ResponseOf(1)[1]

\* C15: get_search_results goes past a batch (to the merge, the retry
\* prompt, a new batch or Abort) only when every request of the batch has
\* resolved: no request is outstanding at the retry prompt, at the end, or
\* from an earlier batch when the next one is issued.
C15_BatchFullyResolved ==
    /\ pc \notin {"gather", "request_retry"} => InFlight(tasks) = {}
    /\ outstanding = 0

\* C16: get_search_results never retries silently: the batches issued are
\* one plus the yes answers at its retry prompt, and an error of a request
\* leads to the prompt or to Abort, never to a returned list.
C16_NoSilentRetry ==
    /\ batches = (IF pc = "call" THEN retry_yes ELSE retry_yes + 1)
    /\ SearchReturned => \A q \in 1..Len(tasks) : tasks[q].st = "ok"
    /\ (\E q \in 1..Len(tasks) : tasks[q].st = "raised") =>
        \/ pc \in {"search_retry", "call"}
        \/ (pc = "done" /\ outcome = "Abort" /\ abort_in = "search")

C16_Witness ==
    /\ pc = "returned" /\ retry_yes > 0 /\ batches = retry_yes + 1
    /\ last_prompt = "search_retry" /\ last_answer = "y"
    /\ results # <<>>

\* C17: whenever the user declines a network retry prompt during the dupe
\* check (for a search request or for the redirect lookup, started from a
\* number or from a URL), an Abort leaves check_existing_group and no
\* further prompt is shown.
C17_DeclinedRetryAborts ==
    (last_prompt \in {"search_retry", "redirect_retry"} /\ last_answer = "n") =>
        (pc = "done" /\ outcome = "Abort")

\* C18: for every transient failure of a search request the user is shown
\* a retry-or-abort prompt before the dupe check can abort: Searching ends
\* with Abort only after such a prompt was answered with abort.
C18_PromptBeforeSearchAbort ==
    abort_in = "search" =>
        (last_prompt \in {"request_retry", "search_retry"} /\ last_answer = "n")

\* C19: the log matcher runs only after the search batch completed with an
\* empty result list and only if recent-upload checking is on; otherwise no
\* log page is fetched and the structured-results prompt is used, with an
\* empty candidate list if nothing was found.
C19_LogOnlyAfterEmptySearch ==
    /\ log_fetched => (results = <<>> /\ check_recent_uploads /\ batches > 0)
    /\ prompt = "recent" => log_fetched
    /\ prompt = "group" =>
        (~log_fetched /\ listed /\ ~(results = <<>> /\ check_recent_uploads))
    /\ (pc \in {"choices", "log"} /\ results = <<>> /\ check_recent_uploads) =>
        prompt # "group"

C19_Witness ==
    /\ prompt = "group" /\ results = <<>> /\ ~check_recent_uploads
    /\ ~log_fetched /\ pc = "choices" /\ listing = <<>>

\* The entry is the first of the log with its artist and title.
FirstOfItsRelease(i) ==
    \A j \in 1..(i - 1) :
        log_uploads[j].artist \o log_uploads[j].title
            # log_uploads[i].artist \o log_uploads[i].title

\* C20: dupe_check_recent_torrents keeps a (deduplicated) log entry if and
\* only if some string rebuilt from its artist and title has a similarity to
\* searchstrs[0] strictly greater than the tolerance; an entry whose best
\* similarity equals the tolerance is left out, and so is one with no
\* rebuilt string.
C20_HitIffAboveTolerance ==
    (pc = "choices" /\ prompt = "recent") =>
        \A i \in 1..Len(log_uploads) :
            LET u == log_uploads[i]
                comparisons ==
                    generate_dupe_check_searchstrs(u.artist, u.title, <<>>)
            IN  (u.id \in Range(recent_uploads)) <=>
                    /\ FirstOfItsRelease(i)
                    /\ \E k \in 1..Len(comparisons) :
                        LET r == ratio(queries[1], comparisons[k])
                        IN  r.n * tolerance.d > tolerance.n * r.d

C20_Witness ==
    /\ pc = "choices" /\ prompt = "recent" /\ tolerance = DefaultTolerance
    /\ Len(log_uploads) = 2 /\ Len(recent_uploads) = 1
    /\ \E i \in 1..Len(log_uploads) :
        LET r == score(queries[1], log_uploads[i])
        IN  /\ r.n * tolerance.d = tolerance.n * r.d
            /\ log_uploads[i].id \notin Range(recent_uploads)

\* The entry is the first of the log with its artist and with its title.
FirstWithArtistAndTitle(i) ==
    \A j \in 1..(i - 1) :
        \/ log_uploads[j].artist # log_uploads[i].artist
        \/ log_uploads[j].title # log_uploads[i].title

\* C21: dupe_check_recent_torrents evaluates exactly the first-seen entry
\* of each release: two log entries are collapsed if and only if they have
\* the same artist and the same title, so an entry that differs from all
\* earlier ones in artist or title is scored against the tolerance even
\* when artist+title is the same string as an earlier entry's.
C21_CollapsedIffSameArtistAndTitle ==
    (pc = "choices" /\ prompt = "recent") =>
        \A i \in 1..Len(log_uploads) :
            (log_uploads[i].id \in Range(recent_uploads)) <=>
                /\ FirstWithArtistAndTitle(i)
                /\ Greater(score(queries[1], log_uploads[i]), tolerance)

\* An element of a log page the parser can read: it has a link, and the text
\* after the link has its parenthesised part.
WellFormed(el) == el.link /\ el.text = "paren"

\* The function named fn was called and the call is over.
Called(fn) == call.fn = fn /\ returned # NoCall

\* C22: parse_uploads_from_log_html never fails on a malformed element, be it
\* one without a link or one whose text lacks the parenthesised part: the
\* call returns, and every well-formed element of the page is in its list.
C22_MalformedEntrySkipped ==
    Called("parse_uploads_from_log_html") =>
        /\ returned.to = "return"
        /\ \A i \in 1..Len(call.entries) :
            WellFormed(call.entries[i]) =>
                \E k \in 1..Len(returned.val) :
                    returned.val[k].id = call.entries[i].id

\* The title with every "vol" token, the characters up to the next blank
\* included, replaced by "volume".
RECURSIVE VolumeSpelledOut(_, _)
VolumeSpelledOut(title, i) ==
    IF i > Len(title) THEN <<>>
    ELSE IF VolAt(lower(title), i)
    THEN <<"v", "o", "l", "u", "m", "e">>
         \o VolumeSpelledOut(title, RunEnd(title, i + 3) + 1)
    ELSE <<title[i]>> \o VolumeSpelledOut(title, i + 1)

\* C27: for every title whose lower-case form matches vol[^u], "Party Vol 3"
\* among them, generate_dupe_check_searchstrs adds the candidate built from
\* the title with the vol token replaced by "volume" (it holds "volume 3"
\* for "Party Vol 3"); for a title with "vol" only as part of "volume", such
\* as "Party Volume 3", only the base candidate is built.
C27_VolumeVariantAdded ==
    Called("generate_dupe_check_searchstrs") =>
        /\ search_vol(call.title) =>
                \E k \in 1..Len(returned.candidates) :
                    returned.candidates[k] =
                        normalize(call.artist \o <<" ">>
                                  \o VolumeSpelledOut(call.title, 1))
        /\ (~search_vol(call.title) /\ Contains(lower(call.title), <<"v", "o", "l">>))
                => Len(returned.candidates) = 1

\* How often a url is among the releases.
Count(releases, url) ==
    Cardinality({k \in 1..Len(releases) : releases[k].url = url})

\* label_rls was called and the first response had its "pages" field.
LabelListed == Called("label_rls") /\ call.first.has_pages

\* C28 as stated: label_rls fetches page 1 twice and never removes the
\* duplicates, so every group of page 1 is twice in the returned list.
C28_FirstPageListedTwice ==
    LabelListed =>
        /\ returned.val.requested[1] = 1
        /\ returned.val.requested[Len(returned.val.requested)] = 1
        /\ \A i \in 1..Len(call.first.results) :
            Count(returned.val.releases, call.first.results[i].groupId) = 2

\* C28: label_rls fetches page 1 twice, with its first request and again
\* after the page loop, and the duplicates are removed by url: every group
\* of page 1 is in the returned list exactly once.
C28_FirstPageTwiceListedOnce ==
    LabelListed =>
        /\ Len(returned.val.requested) >= 2
        /\ returned.val.requested[1] = 1
        /\ returned.val.requested[Len(returned.val.requested)] = 1
        /\ \A i \in 1..Len(call.first.results) :
            Count(returned.val.releases, call.first.results[i].groupId) = 1

\* Page 1 held two groups both times it was fetched.
C28_Witness ==
    /\ LabelListed
    /\ Len(call.first.results) = 2
    /\ call.later[Len(call.later)] = call.first.results
    /\ \A i \in 1..2 :
        Count(returned.val.releases, call.first.results[i].groupId) = 1

\* The groupIds of the groups a call builds its entries from, in order, and
\* the entries it returned.
SourceIds ==
    IF call.fn = "label_rls"
    THEN [k \in 1..Len(all_results(call.first, call.later)) |->
            all_results(call.first, call.later)[k].groupId]
    ELSE LET groups == SelectSeq(call.torrentgroup, artist_group_listed)
         IN  [k \in 1..Len(groups) |-> groups[k].groupId]
ReturnedReleases ==
    IF call.fn = "label_rls" THEN returned.val.releases ELSE returned.val

FirstIndex(ids, id) ==
    CHOOSE k \in 1..Len(ids) : ids[k] = id /\ \A j \in 1..(k - 1) : ids[j] # id

\* C29: the lists artist_rls and label_rls return hold no two entries with
\* the same url, hold every url of the groups they were built from, and have
\* each url at the position of its first occurrence.
C29_OneEntryPerUrlAtFirstPlace ==
    (LabelListed \/ Called("artist_rls")) =>
        /\ \A i, j \in 1..Len(ReturnedReleases) :
            i # j => ReturnedReleases[i].url # ReturnedReleases[j].url
        /\ {ReturnedReleases[i].url : i \in 1..Len(ReturnedReleases)}
             = Range(SourceIds)
        /\ \A i, j \in 1..Len(ReturnedReleases) :
            i < j => FirstIndex(SourceIds, ReturnedReleases[i].url)
                     < FirstIndex(SourceIds, ReturnedReleases[j].url)

\* A url came again after a different one, and both are listed once.
C29_Witness ==
    /\ LabelListed
    /\ Len(SourceIds) >= 3
    /\ \E i, j, k \in 1..Len(SourceIds) :
        /\ i < j /\ j < k
        /\ SourceIds[i] = SourceIds[k] /\ SourceIds[i] # SourceIds[j]
        /\ \A h \in (j + 1)..Len(SourceIds) : SourceIds[h] # SourceIds[j]
    /\ Len(ReturnedReleases) = 2

C23_LastMinuteOnlyConfirms ==
    (last_min.ran /\ last_min.end # "RequestException") =>
        /\ last_min.searches = 0 /\ last_min.selections = 0
        /\ last_min.log_checks = 1
        /\ last_min.confirms = 1 <=> last_min.hits # <<>>
        /\ last_min.confirms \in {0, 1}
        /\ IF last_min.confirms = 1 /\ last_min.answer = "no"
           THEN last_min.end = "Abort"
           ELSE /\ last_min.end = "return"
                /\ (upload_pc = "upload" /\ uploaded = <<>>)
                        => upload_group_id = last_min.group_id

\* A dupe-check step was run with an empty query list or with none.
WithoutQueries(c) == c.strs = NoList \/ c.strs = List(<<>>)

\* C24: with an empty query set, or with none because the group id was
\* supplied, every dupe-check step (initial, recheck, last-minute) is
\* skipped or ends without an error: the log matcher is never run on an
\* empty or missing list, where reading its first string fails.
C24_NoStepFailsWithoutQueries ==
    \A k \in 1..Len(checks) :
        (checks[k].step \in {"initial", "recheck", "last_min"}
         /\ WithoutQueries(checks[k]))
            => checks[k].end \notin {"IndexError", "TypeError"}

\* C25: after a metadata edit that changed the query set, every later
\* dupe-check step (recheck, last-minute) runs with the set generated from
\* the edited metadata, never with the one from before the edit.
C25_LaterStepsUseEditedQueries ==
    Range(meta_strs) # Range(rls_strs) =>
        \A k \in 1..Len(checks) :
            (checks[k].step \in {"recheck", "last_min"}
             /\ ~WithoutQueries(checks[k]))
                => checks[k].strs = List(meta_strs)

\* C26: when upload has ended, the folder is gone (deleted or in the recycle
\* bin) if and only if a dupe-check step, be it the initial check, the
\* recheck or the check for a further tracker, ended with
\* AbortAndDeleteFolder; after Abort the folder is still there.
C26_FolderGoneIffDeleteSignal ==
    upload_pc = "ended" =>
        (folder # "present" <=>
            \E k \in 1..Len(checks) : checks[k].end = "AbortAndDeleteFolder")

\* Two fractions are the same number.
SameRatio(x, y) == x.n * y.d = y.n * x.d

C32_AllPagesRequested ==
    (LabelListed /\ call.first.pages >= 2) =>
        /\ \A pg \in 2..call.first.pages :
            pg \in Range(returned.val.requested)
        /\ \A i, j \in 1..Len(returned.val.releases) :
            (/\ \E k \in 1..Len(call.first.results) :
                    call.first.results[k].groupId = returned.val.releases[j].url
             /\ \A k \in 1..Len(call.first.results) :
                    call.first.results[k].groupId # returned.val.releases[i].url)
                => j < i

\* C33: when check_existing_group is called with offer_deletion false, no
\* run of the protocol ends with AbortAndDeleteFolder, whatever is entered
\* in PresentingChoices and in Confirming.
C33_NoDeleteUnlessOffered ==
    (entry = "check" /\ ~offer_deletion) => outcome # "AbortAndDeleteFolder"

\* C34: check_existing_group returns no group id only if the user entered
\* the new token or a blank line at PresentingChoices or answered "new" in
\* Confirming; a number or a pasted URL never ends as NewGroup without such
\* an answer, also when the redirect lookup yields no group id or the URL
\* carries id=0.
C34_NewGroupOnlyOnNewAnswer ==
    (pc = "done" /\ outcome = "return" /\ prompt # "none" /\ ~Truthy(ret)) =>
        \/ via = "new"
        \/ (last_prompt = "confirm" /\ last_answer = "n")

\* How often x is an element of the list.
Times(list, x) == Cardinality({i \in 1..Len(list) : list[i] = x})

\* C35: filter_unnecessary_searchstrs loses no search coverage: the result
\* is a sub-list of the input in ascending order of length, it is not empty
\* when the input is not, and for every candidate, dropped ones included,
\* there is a kept string whose word set is a subset of the candidate's.
C35_FilterKeepsCoverage ==
    fpc = "done" =>
        /\ \A k \in 1..Len(kept) : Times(kept, kept[k]) <= Times(cands, kept[k])
        /\ \A i, j \in 1..Len(kept) : i < j => Len(kept[i]) <= Len(kept[j])
        /\ cands # <<>> => kept # <<>>
        /\ \A i \in 1..Len(cands) :
            \E k \in 1..Len(kept) :
                word_set(kept[k]) \subseteq word_set(cands[i])

\* Of two different candidates, both with words, one was dropped.
C35_Witness ==
    /\ fpc = "done"
    /\ Len(cands) = 2 /\ Len(kept) = 1
    /\ cands[1] # cands[2]
    /\ word_set(cands[1]) # {} /\ word_set(cands[2]) # {}
    /\ kept[1] \in Range(cands)

\* One step of upload() seen from its tracker loop.
C36_LoopStep ==
    /\ uploaded' # uploaded =>
        /\ upload_pc = "upload"
        /\ uploaded' = Append(uploaded, tracker)
        /\ tracker \notin Range(uploaded)
        /\ Len(remaining_gazelle_sites') = Len(remaining_gazelle_sites) - 1
        /\ Range(remaining_gazelle_sites') =
                Range(remaining_gazelle_sites) \ {tracker}
        /\ (upload_pc' = "ended") <=>
                (remaining_gazelle_sites' = <<>> \/ ~multi_tracker_upload)
    /\ upload_pc' = "choose" =>
        (remaining_gazelle_sites' # <<>> /\ multi_tracker_upload)
    /\ (upload_pc = "choose" /\ upload_end' = "done") =>
        (tracker' = "" /\ uploaded' = uploaded)

\* C36: in the tracker loop of upload the release is uploaded to each
\* tracker at most once, the list of remaining trackers loses exactly the
\* tracker just used in every pass, and the loop terminates: it ends when no
\* tracker remains, when multi_tracker_upload is off, or when the user
\* picks no further tracker.
C36_TrackerLoopTerminates ==
    /\ [][C36_LoopStep]_vars
    /\ <>(upload_pc = "ended")

\* Both trackers were used, each once, and the loop ended with none left.
C36_Witness ==
    /\ upload_pc = "ended" /\ upload_end = "done"
    /\ Len(uploaded) = 2 /\ uploaded[1] # uploaded[2]
    /\ remaining_gazelle_sites = <<>>

\* The converter processes that have not exited.
RunningProcesses ==
    {p \in 1..Len(processes) : processes[p].returncode = Running}

\* The processes started by the call of _convert_files under way or last made.
StartedByCall == {p \in 1..Len(processes) : processes[p].call = conv.n}

\* C37: in _convert_files no more converter processes run at the same time
\* than there are slots (cfg.upload.simultaneous_threads), a slot is given a
\* new file only when it holds no running process (every running process
\* keeps its slot), no file is started twice, and a call that runs to its
\* return has started every file of files_convert.
C37_SlotsBoundProcesses ==
    /\ Cardinality(RunningProcesses) <= Len(THREADS)
    /\ \A p \in RunningProcesses : \E i \in 1..Len(THREADS) : THREADS[i] = p
    /\ \A p, q \in StartedByCall :
        processes[p].file = processes[q].file => p = q
    /\ conv.end = "return" =>
        \A k \in 1..Len(conv.files_convert) :
            \E p \in StartedByCall : processes[p].file = conv.files_convert[k].file

\* A call returned after converting more files than there are slots.
C37_Witness ==
    /\ conv.end = "return"
    /\ Len(conv.files_convert) > Len(THREADS)
    /\ Cardinality(StartedByCall) = Len(conv.files_convert)

\* C38: _convert_files returns normally only after every process it started
\* has exited with code 0, a call one of whose processes exited with another
\* code does not return, and at the start of every call all slots are free:
\* no process of an earlier call, one that ended with Abort included, still
\* occupies a slot.
C38_SlotsFreeAtCallStart ==
    /\ conv.end = "return" =>
        \A p \in StartedByCall : processes[p].returncode = 0
    /\ \A i \in 1..Len(conv.at_start) : conv.at_start[i] = NoProcess

\* C39: _convert_files returns a defined sample rate for every input, a
\* folder with no file to convert (files_convert empty) included: the value
\* is set on every path that reaches the return statement.
C39_ReturnValueDefined ==
    conv.pc = "done" =>
        /\ conv.end # "UnboundLocalError"
        /\ conv.end = "return" => conv.ret \in {44100, 48000}

====
